---- MODULE Spec2Model ----
(***************************************************************************)
(* Model of the surrogate-safety (SSM) server of the V2X corridor          *)
(* simulation, src/corridorDesignSUMO/ssm_dash_noexcel.py: the entity      *)
(* store vehicle_states, the four ring buffers, and the request handlers   *)
(* check_vehicle_risk, vru_check_risk, rsu_check and snapshot.  The        *)
(* variant "pet" is ssm_dash_noexcel_pet.py, which differs from it in      *)
(* check_vehicle_risk alone.                                               *)
(*                                                                         *)
(* Numbers.  The handlers compute in floating point.  The model computes   *)
(* with exact rationals <<n, d>> (d > 0, lowest terms); float('inf') is    *)
(* <<1, 0>> and Python's None is <<0, 0>>.  Inputs are integer positions   *)
(* whose pairwise distances are integers, integer speeds and headings of   *)
(* 0 or 180 degrees, so that math.hypot, cos and sin have exact rational   *)
(* values (sin(radians(180)) is taken as 0; the float is 1.2e-16).         *)
(***************************************************************************)
EXTENDS Integers, Sequences, FiniteSets, TLC

VARIABLES
    vehicle_states,   \* dict vid -> state, as the sequence of its items in insertion order
    ssm_buf,          \* deque(maxlen=BUF_SIZE) of vehicle-vehicle SSM rows
    alert_buf,        \* deque(maxlen=BUF_SIZE) of alerts
    vru_buf,          \* deque(maxlen=BUF_SIZE) of vehicle-pedestrian rows
    rsu_buf,          \* deque(maxlen=BUF_SIZE) of roadside detections
    variant,          \* the server file that runs: "noexcel", "pet" or "desh"
    now,              \* the server clock read by time.time(); it has advanced
                      \* between the reads of two requests
    req,              \* the request being answered (kind and body)
    resp,             \* the response to req
    accepted,         \* history: id -> the fields last parsed and upserted for it
    inserted,         \* history: ids in the order of their first upsert
    ncalls,           \* number of requests handled so far
    log,              \* history: the requests in the order the server read them,
                      \* each with the clock it read and its response
    threads,          \* the request handlers that run overlapped: for each
                      \* worker thread its position in the handler and its locals
    sim,              \* the simulation loop of run.py: the roadside sensors, the
                      \* entities of the current step and the detections of its scan
    monitor           \* run_with_flask.py: _monitor_state["running"],
                      \* monitor_stop_event, the monitor loop threads and the
                      \* /start and /stop handlers in progress

vars == <<vehicle_states, ssm_buf, alert_buf, vru_buf, rsu_buf, variant, now, req, resp,
          accepted, inserted, ncalls, log, threads, sim, monitor>>

-----------------------------------------------------------------------------
(* Bounds of the model *)

\* capacity of each ring buffer (the program runs with 20000)
BUF_SIZE == 3
\* requests handled in one behaviour of the server specification
MaxCalls == 3
\* check_vehicle requests in one behaviour of the vehicle specification
MaxVehCalls == 3
\* check_vehicle requests in one behaviour of the ordering specification
MaxOrderCalls == 4
\* capacity of _recent_rsu in ssm_desh.py (the program runs with 2000)
RECENT_RSU_SIZE == 3
\* requests in one behaviour of the snapshot window specification
MaxWindowCalls == 4
\* requests in one behaviour of the ring buffer specification
MaxRingCalls == 5
\* requests received in one behaviour of the threaded specification
MaxThreadCalls == 3
\* steps of the simulation loop in one behaviour
MaxSimSteps == 2
\* requests in one behaviour of the degenerate-input specification
MaxDegenerateCalls == 2
\* /start and /stop requests in one behaviour of the monitor specification
MaxMonitorCalls == 3
\* requests in one behaviour of the grid specifications
MaxGridVehCalls == 2
MaxGridVruCalls == 1

-----------------------------------------------------------------------------
(* Exact rational arithmetic standing for the float operations *)

RECURSIVE GCD(_, _)
GCD(a, b) == IF b = 0 THEN a ELSE GCD(b, a % b)

IAbs(n) == IF n < 0 THEN -n ELSE n

\* the rational n/d in lowest terms, d # 0
Rat(n, d) ==
    LET s == IF d < 0 THEN -1 ELSE 1
        g == GCD(IAbs(n), IAbs(d))
    IN  <<(s * n) \div g, (s * d) \div g>>

INF == <<1, 0>>
NONE == <<0, 0>>
ZERO == <<0, 1>>
ONE == <<1, 1>>

IsInf(a) == a = INF
IsNone(a) == a = NONE

RInt(n) == <<n, 1>>
RAdd(a, b) == Rat(a[1] * b[2] + b[1] * a[2], a[2] * b[2])
RSub(a, b) == Rat(a[1] * b[2] - b[1] * a[2], a[2] * b[2])
RMul(a, b) == Rat(a[1] * b[1], a[2] * b[2])
RDiv(a, b) == Rat(a[1] * b[2], a[2] * b[1])
RNeg(a) == <<-a[1], a[2]>>
RAbs(a) == <<IAbs(a[1]), a[2]>>
\* a < b, a <= b, also when either side is INF
RLt(a, b) == a[1] * b[2] < b[1] * a[2]
RLe(a, b) == a[1] * b[2] <= b[1] * a[2]
RGt(a, b) == RLt(b, a)
RGe(a, b) == RLe(b, a)
RMax(a, b) == IF RLt(a, b) THEN b ELSE a
RMin(a, b) == IF RLt(b, a) THEN b ELSE a

\* round(x, 3): nearest multiple of 1/1000, ties to even
Round3(a) ==
    LET q == (1000 * a[1]) \div a[2]
        r == (1000 * a[1]) - q * a[2]
        m == IF 2 * r > a[2] THEN q + 1
             ELSE IF 2 * r = a[2] THEN q + (q % 2)
             ELSE q
    IN  Rat(m, 1000)

\* None if x == float('inf') else x
NoneIfInf(a) == IF IsInf(a) THEN NONE ELSE a
\* None if x == float('inf') else round(x, 3)
NoneIfInfRound(a) == IF IsInf(a) THEN NONE ELSE Round3(a)

\* math.hypot on integers whose sum of squares is a perfect square
Hypot(a, b) == CHOOSE r \in 0..(IAbs(a) + IAbs(b)) : r * r = a * a + b * b

\* math.cos(math.radians(h)), math.sin(math.radians(h)) for h in {0, 180}
CosDeg(h) == IF h = 0 THEN 1 ELSE -1
SinDeg(h) == 0

-----------------------------------------------------------------------------
(* Math helpers (SSMs) *)

euclidean_distance(p1, p2) ==
    LET dx == p1[1] - p2[1]
        dy == p1[2] - p2[2]
    IN  Hypot(dx, dy)

unit_vector(vx, vy) ==
    LET mag == Hypot(vx, vy)
    IN  IF mag = 0 THEN <<ZERO, ZERO>>
        ELSE <<Rat(vx, mag), Rat(vy, mag)>>

project_speed_along_line(pos_rel, heading_speed_vec) ==
    LET u == unit_vector(pos_rel[1], pos_rel[2])
        rvx == RInt(heading_speed_vec[1])
        rvy == RInt(heading_speed_vec[2])
    IN  RNeg(RAdd(RMul(rvx, u[1]), RMul(rvy, u[2])))

compute_ttc(distance, closing_speed) ==
    IF RLe(closing_speed, ZERO) \/ RLe(distance, ZERO) THEN INF
    ELSE RDiv(distance, closing_speed)

required_deceleration(rel_speed, distance) ==
    LET d_eff == RMax(distance, <<1, 1000>>)
    IN  RDiv(RMul(rel_speed, rel_speed), RMul(RInt(2), d_eff))

\* variant of time_headway: a follower at rest gets headway 0
time_headway_ZeroAtRest(distance, follower_speed) ==
    IF RLe(follower_speed, ZERO) THEN ZERO
    ELSE RDiv(distance, follower_speed)

time_headway(distance, follower_speed) ==
    IF RLe(follower_speed, ZERO) THEN INF
    ELSE RDiv(distance, follower_speed)

-----------------------------------------------------------------------------
(* In-memory state and buffers *)

\* variant of DequeAppend: a full deque refuses the new entry
DequeAppend_KeepOldest(buf, rec) ==
    IF Len(buf) >= BUF_SIZE THEN buf ELSE Append(buf, rec)

\* variant of DequeAppend: deque.appendleft, the newest entry goes first and
\* the last one is dropped when full
DequeAppend_Left(buf, rec) ==
    IF Len(buf) >= BUF_SIZE THEN <<rec>> \o SubSeq(buf, 1, Len(buf) - 1)
    ELSE <<rec>> \o buf

\* deque.append on a deque(maxlen=BUF_SIZE): the oldest entry is dropped when full
DequeAppend(buf, rec) ==
    IF Len(buf) >= BUF_SIZE THEN Append(Tail(buf), rec) ELSE Append(buf, rec)

StoreIds(store) == {store[i].id : i \in 1..Len(store)}

\* variant of Upsert: vehicle_states.setdefault(vid, {...}), an existing key
\* keeps its old record
Upsert_SetDefault(store, vid, st) ==
    LET item == [id |-> vid, position |-> st.position, speed |-> st.speed,
                 heading |-> st.heading, timestamp |-> st.timestamp]
    IN  IF vid \in StoreIds(store) THEN store ELSE Append(store, item)

\* variant of Upsert: the key is deleted and inserted again, so it goes last
Upsert_MoveToEnd(store, vid, st) ==
    LET item == [id |-> vid, position |-> st.position, speed |-> st.speed,
                 heading |-> st.heading, timestamp |-> st.timestamp]
    IN  Append(SelectSeq(store, LAMBDA x : x.id # vid), item)

\* variant of Upsert: every call adds an item, also for an existing key
Upsert_Duplicate(store, vid, st) ==
    LET item == [id |-> vid, position |-> st.position, speed |-> st.speed,
                 heading |-> st.heading, timestamp |-> st.timestamp]
    IN  Append(store, item)

\* vehicle_states[vid] = {...}: an existing key keeps its place, a new key goes last
Upsert(store, vid, st) ==
    LET item == [id |-> vid, position |-> st.position, speed |-> st.speed,
                 heading |-> st.heading, timestamp |-> st.timestamp]
    IN  IF vid \in StoreIds(store)
        THEN [i \in 1..Len(store) |-> IF store[i].id = vid THEN item ELSE store[i]]
        ELSE Append(store, item)

-----------------------------------------------------------------------------
(* POST /v2x/check/vehicle *)

\* The exception raised while the request body is read (lines 90-96), "" if none.
\* data.fault names what is wrong with the body: "no_id" and "no_position" are a
\* missing key, "position_not_iterable" is a position that is a number or null,
\* "speed_not_number" is a speed that float() rejects.
VehicleParseError(data) ==
    CASE data.fault = "no_json" -> "BadRequest"
      [] data.fault = "no_id" -> "KeyError"
      [] data.fault = "no_position" -> "KeyError"
      [] data.fault = "position_not_iterable" -> "TypeError"
      [] data.fault = "speed_not_number" -> "ValueError"
      [] OTHER -> ""


\* variant of VehicleRisk: a ttc below 1.0 weighs 0.8
VehicleRisk_TtcHeavy(ttc, req_dec, delta_v) ==
    LET r1 == IF ~IsInf(ttc)
              THEN IF RLt(ttc, ONE) THEN <<4, 5>>
                   ELSE IF RLt(ttc, <<5, 2>>) THEN <<3, 10>> ELSE ZERO
              ELSE ZERO
        r2 == IF RGt(req_dec, RInt(5)) THEN RAdd(r1, <<1, 5>>) ELSE r1
        r3 == IF RGt(delta_v, RInt(5)) THEN RAdd(r2, <<1, 5>>) ELSE r2
    IN  RMin(ONE, r3)

\* risk score of one pair (lines 151-158)
VehicleRisk(ttc, req_dec, delta_v) ==
    LET r0 == ZERO
        r1 == IF ~IsInf(ttc)
              THEN RAdd(r0, IF RLt(ttc, ONE) THEN <<3, 5>>
                            ELSE IF RLt(ttc, <<5, 2>>) THEN <<3, 10>> ELSE ZERO)
              ELSE r0
        r2 == IF RGt(req_dec, RInt(5)) THEN RAdd(r1, <<1, 5>>) ELSE r1
        r3 == IF RGt(delta_v, RInt(5)) THEN RAdd(r2, <<1, 5>>) ELSE r2
    IN  RMin(ONE, r3)

\* risk score of one pair in ssm_dash_noexcel_pet.py (lines 170-179)
VehicleRiskPet(ttc, req_dec, delta_v, pet) ==
    LET r0 == ZERO
        r1 == IF ~IsInf(ttc)
              THEN RAdd(r0, IF RLt(ttc, ONE) THEN <<3, 5>>
                            ELSE IF RLt(ttc, <<5, 2>>) THEN <<3, 10>> ELSE ZERO)
              ELSE r0
        r2 == IF RGt(req_dec, RInt(5)) THEN RAdd(r1, <<1, 5>>) ELSE r1
        r3 == IF RGt(delta_v, RInt(5)) THEN RAdd(r2, <<1, 5>>) ELSE r2
        r4 == IF ~IsInf(pet) /\ RLt(pet, ONE) THEN RAdd(r3, <<1, 5>>) ELSE r3
    IN  RMin(ONE, r4)

\* the PET proxy of ssm_dash_noexcel_pet.py (lines 138-141)
VehiclePet(distance, closing, speed) ==
    IF RGt(closing, ZERO) /\ speed > 0
    THEN RAbs(RSub(RDiv(distance, closing),
                   RDiv(distance, RMax(RInt(speed), <<1, 1000000>>))))
    ELSE INF

\* variant of PairSSM: the velocity of the other entity is left out of the
\* relative velocity
PairSSM_EgoVelocity(ego, other) ==
    LET pos == ego.position
        opos == other.position
        distance == RInt(euclidean_distance(pos, opos))
        vx == ego.speed * CosDeg(ego.heading)
        vy == ego.speed * SinDeg(ego.heading)
        pos_rel == <<opos[1] - pos[1], opos[2] - pos[2]>>
        closing == project_speed_along_line(pos_rel, <<vx, vy>>)
        ttc == compute_ttc(distance, closing)
        delta_v == RInt(IAbs(Hypot(vx, vy)))
        req_dec == required_deceleration(delta_v, distance)
        thw == time_headway(distance, RInt(ego.speed))
    IN  [distance |-> distance, closing |-> closing, ttc |-> ttc,
         delta_v |-> delta_v, req_dec |-> req_dec, thw |-> thw]

\* the SSMs of ego against one stored entity (lines 107-124)
PairSSM(ego, other) ==
    LET pos == ego.position
        opos == other.position
        distance == RInt(euclidean_distance(pos, opos))
        vx == ego.speed * CosDeg(ego.heading)
        vy == ego.speed * SinDeg(ego.heading)
        ovx == other.speed * CosDeg(other.heading)
        ovy == other.speed * SinDeg(other.heading)
        pos_rel == <<opos[1] - pos[1], opos[2] - pos[2]>>
        rel_vx == vx - ovx
        rel_vy == vy - ovy
        closing == project_speed_along_line(pos_rel, <<rel_vx, rel_vy>>)
        ttc == compute_ttc(distance, closing)
        delta_v == RInt(IAbs(Hypot(rel_vx, rel_vy)))
        req_dec == required_deceleration(delta_v, distance)
        thw == time_headway(distance, RInt(ego.speed))
    IN  [distance |-> distance, closing |-> closing, ttc |-> ttc,
         delta_v |-> delta_v, req_dec |-> req_dec, thw |-> thw]

\* variant of AlertType: the upper threshold is compared with > instead of >=
AlertType_StrictUpper(risk) ==
    IF RGt(risk, <<4, 5>>) THEN "collision_imminent"
    ELSE IF RGe(risk, <<2, 5>>) THEN "collision_warning"
    ELSE ""

\* the alert type of a risk score, "" when no alert is emitted (lines 160, 174)
AlertType(risk) ==
    IF RGe(risk, <<4, 5>>) THEN "collision_imminent"
    ELSE IF RGe(risk, <<2, 5>>) THEN "collision_warning"
    ELSE ""

AlertAction(type) ==
    IF type = "collision_imminent" THEN "emergency_brake" ELSE "slow_down"

\* one turn of the loop body for a pair that computes (lines 111-187)
PairStep(v, ego, other, acc) ==
    LET Row(m, pet) ==
            [ts |-> ego.timestamp, ego |-> ego.id, other |-> other.id,
             dist |-> m.distance, closing |-> m.closing,
             ttc |-> NoneIfInf(m.ttc), req_dec |-> m.req_dec,
             thw |-> NoneIfInf(m.thw), delta_v |-> m.delta_v]
            @@ (IF v = "pet" THEN [pet |-> NoneIfInf(pet)] ELSE <<>>)
        Ssm(m, pet) ==
            [other_id |-> other.id,
             distance |-> Round3(m.distance),
             closing_speed |-> Round3(m.closing),
             delta_v |-> Round3(m.delta_v),
             ttc |-> NoneIfInfRound(m.ttc),
             required_deceleration |-> Round3(m.req_dec),
             time_headway |-> NoneIfInfRound(m.thw)]
            @@ (IF v = "pet" THEN [pet |-> NoneIfInfRound(pet)] ELSE <<>>)
        Risk(m, pet) ==
            IF v = "pet" THEN VehicleRiskPet(m.ttc, m.req_dec, m.delta_v, pet)
            ELSE VehicleRisk(m.ttc, m.req_dec, m.delta_v)
        Alert(m, risk, type) ==
            [type |-> type, from |-> ego.id, to |-> other.id,
             risk_score |-> Round3(risk),
             recommended_action |-> AlertAction(type),
             ttc |-> NoneIfInfRound(m.ttc)]
        AlertRow(m, risk, type) ==
            [ts |-> ego.timestamp, type |-> type, from |-> ego.id,
             to |-> other.id, risk |-> risk, action |-> AlertAction(type),
             ttc |-> NoneIfInf(m.ttc)]
        Emit(m, risk, type) ==
            [alerts |-> IF type = "" THEN acc.alerts
                        ELSE Append(acc.alerts, Alert(m, risk, type)),
             alert_buf |-> IF type = "" THEN acc.alert_buf
                           ELSE DequeAppend(acc.alert_buf, AlertRow(m, risk, type))]
        Scored(m, pet, risk) ==
            [ssm_list |-> Append(acc.ssm_list, Ssm(m, pet)),
             ssm_buf |-> DequeAppend(acc.ssm_buf, Row(m, pet)),
             raised |-> acc.raised] @@ Emit(m, risk, AlertType(risk))
        Measured(m, pet) == Scored(m, pet, Risk(m, pet))
        Paired(m) == Measured(m, VehiclePet(m.distance, m.closing, ego.speed))
    IN  Paired(PairSSM(ego, other))

\* p1[0], p1[1] of a tuple shorter than two raise IndexError in euclidean_distance
PairRaises(ego, other) ==
    Len(ego.position) < 2 \/ Len(other.position) < 2

\* the for loop over vehicle_states.items() from its i-th item on (lines 104-187);
\* an exception leaves the loop with what was appended so far
RECURSIVE Scan(_, _, _, _, _)
Scan(v, store, i, ego, acc) ==
    IF i > Len(store) THEN acc
    ELSE IF store[i].id = ego.id THEN Scan(v, store, i + 1, ego, acc)
    ELSE IF PairRaises(ego, store[i]) THEN [acc EXCEPT !.raised = "IndexError"]
    ELSE Scan(v, store, i + 1, ego, PairStep(v, ego, store[i], acc))

\* variant of FinalAlerts: the sentinel is added to every alert list
FinalAlerts_Always(alerts, ts) ==
    Append(alerts, [action |-> "safe", timestamp |-> ts])

\* if not alerts: alerts = [{"action": "safe", "timestamp": ts}] (lines 189-190)
FinalAlerts(alerts, ts) ==
    IF alerts = <<>> THEN <<[action |-> "safe", timestamp |-> ts]>> ELSE alerts

ErrorResponse(kind, status, e) ==
    [kind |-> kind, status |-> status, body |-> [error |-> e]]

\* check_vehicle_risk as a function of the state it reads: the new store and
\* buffers and the response
check_vehicle_risk(v, store, sbuf, abuf, data, ts) ==
    LET perr == VehicleParseError(data)
        ego == [id |-> data.id, position |-> data.position, speed |-> data.speed,
                heading |-> data.heading, timestamp |-> ts]
        Scanned(store1, out) ==
            IF out.raised # ""
            THEN [store |-> store1, ssm_buf |-> out.ssm_buf,
                  alert_buf |-> out.alert_buf,
                  resp |-> ErrorResponse("check_vehicle", 500, out.raised)]
            ELSE [store |-> store1, ssm_buf |-> out.ssm_buf,
                  alert_buf |-> out.alert_buf,
                  resp |-> [kind |-> "check_vehicle", status |-> 200,
                            body |-> [vehicle_id |-> data.id, ssm |-> out.ssm_list,
                                      alerts |-> FinalAlerts(out.alerts, ts)]]]
        Stored(store1) ==
            Scanned(store1,
                    Scan(v, store1, 1, ego,
                         [ssm_list |-> <<>>, alerts |-> <<>>, ssm_buf |-> sbuf,
                          alert_buf |-> abuf, raised |-> ""]))
    IN  IF perr # ""
        THEN [store |-> store, ssm_buf |-> sbuf, alert_buf |-> abuf,
              resp |-> ErrorResponse("check_vehicle", 500, perr)]
        ELSE Stored(Upsert(store, data.id, ego))

-----------------------------------------------------------------------------
(* POST /v2x/check/vru *)

\* The exception raised while the payload is read (lines 210-221), "" if none.
VruParseError(payload) ==
    CASE payload.fault = "no_json" -> "BadRequest"
      [] payload.fault = "no_vehicle" -> "KeyError"
      [] payload.fault = "no_pedestrian" -> "KeyError"
      [] payload.fault = "position_not_iterable" -> "TypeError"
      [] payload.fault = "speed_not_number" -> "ValueError"
      [] OTHER -> ""

\* the SSMs of the vehicle against the pedestrian (lines 223-237)
VruSSM(v, p) ==
    LET vpos == v.position
        ppos == p.position
        vs == v.speed
        ps == p.speed
        dist == RInt(euclidean_distance(vpos, ppos))
        vvx == vs * CosDeg(v.heading)
        vvy == vs * SinDeg(v.heading)
        pvx == ps * CosDeg(p.heading)
        pvy == ps * SinDeg(p.heading)
        rel_vx == vvx - pvx
        rel_vy == vvy - pvy
        pos_rel == <<ppos[1] - vpos[1], ppos[2] - vpos[2]>>
        closing == project_speed_along_line(pos_rel, <<rel_vx, rel_vy>>)
        ttc == compute_ttc(dist, closing)
        pet == IF ps > 0 /\ RGt(closing, ZERO)
               THEN RAbs(RSub(RDiv(dist, RInt(ps)), RDiv(dist, closing)))
               ELSE INF
        delta_v == RInt(IAbs(Hypot(rel_vx, rel_vy)))
        req_dec == required_deceleration(delta_v, dist)
        thw == time_headway(dist, RInt(vs))
    IN  [dist |-> dist, closing |-> closing, ttc |-> ttc, pet |-> pet,
         delta_v |-> delta_v, req_dec |-> req_dec, thw |-> thw]

\* variant of VruRisk: the sum is not clamped
VruRisk_NoClamp(ttc, pet, req_dec) ==
    LET r1 == IF ~IsInf(ttc)
              THEN IF RLt(ttc, ONE) THEN <<3, 5>>
                   ELSE IF RLt(ttc, <<5, 2>>) THEN <<3, 10>> ELSE ZERO
              ELSE ZERO
        r2 == IF RLt(pet, ONE) THEN RAdd(r1, <<3, 10>>) ELSE r1
    IN  IF RGt(req_dec, RInt(5)) THEN RAdd(r2, <<1, 5>>) ELSE r2

\* variant of VruRisk: the required deceleration counts from 2.0 on
VruRisk_LowDecel(ttc, pet, req_dec) ==
    LET r1 == IF ~IsInf(ttc)
              THEN IF RLt(ttc, ONE) THEN <<3, 5>>
                   ELSE IF RLt(ttc, <<5, 2>>) THEN <<3, 10>> ELSE ZERO
              ELSE ZERO
        r2 == IF RLt(pet, ONE) THEN RAdd(r1, <<3, 10>>) ELSE r1
        r3 == IF RGt(req_dec, RInt(2)) THEN RAdd(r2, <<1, 5>>) ELSE r2
    IN  RMin(ONE, r3)

\* variant of VruRisk: a pet that is not applicable counts as a pet below 1.0
VruRisk_NullPetCounts(ttc, pet, req_dec) ==
    LET r1 == IF ~IsInf(ttc)
              THEN IF RLt(ttc, ONE) THEN <<3, 5>>
                   ELSE IF RLt(ttc, <<5, 2>>) THEN <<3, 10>> ELSE ZERO
              ELSE ZERO
        r2 == IF IsInf(pet) \/ RLt(pet, ONE) THEN RAdd(r1, <<3, 10>>) ELSE r1
        r3 == IF RGt(req_dec, RInt(5)) THEN RAdd(r2, <<1, 5>>) ELSE r2
    IN  RMin(ONE, r3)

\* risk score (lines 240-247)
VruRisk(ttc, pet, req_dec) ==
    LET r0 == ZERO
        r1 == IF ~IsInf(ttc)
              THEN RAdd(r0, IF RLt(ttc, ONE) THEN <<3, 5>>
                            ELSE IF RLt(ttc, <<5, 2>>) THEN <<3, 10>> ELSE ZERO)
              ELSE r0
        r2 == IF RLt(pet, ONE) THEN RAdd(r1, <<3, 10>>) ELSE r1
        r3 == IF RGt(req_dec, RInt(5)) THEN RAdd(r2, <<1, 5>>) ELSE r2
    IN  RMin(ONE, r3)

\* variant of VruAction: the action follows the risk score, as for vehicles
VruAction_ByRisk(ttc, pet, req_dec) ==
    LET risk == VruRisk(ttc, pet, req_dec)
    IN  IF RGe(risk, <<4, 5>>) THEN <<"emergency_brake", "high">>
        ELSE IF RGe(risk, <<2, 5>>) THEN <<"slow_down", "medium">>
        ELSE <<"keep", "low">>

\* action, severity (lines 249-254)
VruAction(ttc, pet, req_dec) ==
    IF RLt(ttc, ONE) \/ RLt(pet, <<1, 2>>) \/ RGt(req_dec, RInt(6))
    THEN <<"emergency_brake", "high">>
    ELSE IF RLt(ttc, <<5, 2>>) \/ RLt(pet, <<3, 2>>) \/ RGt(req_dec, RInt(3))
    THEN <<"slow_down", "medium">>
    ELSE <<"keep", "low">>

vru_check_risk(vbuf, payload, ts) ==
    LET perr == VruParseError(payload)
        v == payload.vehicle
        p == payload.pedestrian
        Body(m, risk, act) ==
            [vehicle_id |-> v.id, pedestrian_id |-> p.id,
             distance |-> Round3(m.dist),
             closing_speed |-> Round3(m.closing),
             delta_v |-> Round3(m.delta_v),
             ttc |-> NoneIfInfRound(m.ttc),
             pet |-> NoneIfInfRound(m.pet),
             required_deceleration |-> Round3(m.req_dec),
             time_headway |-> NoneIfInfRound(m.thw),
             risk_score |-> Round3(risk),
             recommended_action |-> act[1],
             severity |-> act[2],
             timestamp |-> ts]
        Row(m, risk, act) ==
            [ts |-> ts, veh_id |-> v.id, ped_id |-> p.id,
             dist |-> m.dist, closing |-> m.closing,
             ttc |-> NoneIfInf(m.ttc), pet |-> NoneIfInf(m.pet),
             req_dec |-> m.req_dec, thw |-> NoneIfInf(m.thw),
             risk |-> risk, action |-> act[1]]
        Scored(m, risk, act) ==
            [vru_buf |-> DequeAppend(vbuf, Row(m, risk, act)),
             resp |-> [kind |-> "check_vru", status |-> 200,
                       body |-> Body(m, risk, act)]]
        Measured(m) ==
            Scored(m, VruRisk(m.ttc, m.pet, m.req_dec),
                   VruAction(m.ttc, m.pet, m.req_dec))
    IN  IF perr # ""
        THEN [vru_buf |-> vbuf, resp |-> ErrorResponse("check_vru", 400, perr)]
        ELSE IF PairRaises(v, p)
        THEN [vru_buf |-> vbuf, resp |-> ErrorResponse("check_vru", 400, "IndexError")]
        ELSE Measured(VruSSM(v, p))

-----------------------------------------------------------------------------
(* POST /v2x/check/rsu *)

\* a body that is not a JSON object has no .get (lines 307-321)
RsuParseError(d) ==
    CASE d.fault = "no_json" -> "BadRequest"
      [] d.fault = "not_object" -> "AttributeError"
      [] OTHER -> ""

rsu_check(rbuf, d, ts) ==
    LET perr == RsuParseError(d)
        row == [ts |-> ts, rsu_id |-> d.rsu_id, obj_type |-> d.obj_type,
                obj_id |-> d.obj_id, rsu_x |-> d.rsu_x, rsu_y |-> d.rsu_y,
                obj_x |-> d.obj_x, obj_y |-> d.obj_y,
                distance |-> d.distance_m, speed |-> d.speed_mps]
    IN  IF perr # ""
        THEN [rsu_buf |-> rbuf, resp |-> ErrorResponse("check_rsu", 400, perr)]
        ELSE [rsu_buf |-> DequeAppend(rbuf, row),
              resp |-> [kind |-> "check_rsu", status |-> 200, body |-> [ok |-> TRUE]]]

-----------------------------------------------------------------------------
(* GET /v2x/snapshot *)

\* variant of Recent: a record whose age equals the window is left out
Recent_Strict(buf, t, age) == SelectSeq(buf, LAMBDA x : (t - x.ts) < age)

\* [x for x in buf if (now - x["ts"]) <= age]
Recent(buf, t, age) == SelectSeq(buf, LAMBDA x : (t - x.ts) <= age)

RsuWindow == 60
AlertWindow == 600

snapshot(store, rbuf, abuf, sbuf, t) ==
    LET vehicles == [i \in 1..Len(store) |->
                        [veh_id |-> store[i].id, x |-> store[i].position[1],
                         y |-> store[i].position[2], speed |-> store[i].speed,
                         heading |-> store[i].heading,
                         timestamp |-> store[i].timestamp]]
    IN  IF \E i \in 1..Len(store) : Len(store[i].position) < 2
        THEN ErrorResponse("snapshot", 500, "IndexError")
        ELSE [kind |-> "snapshot", status |-> 200,
              body |-> [vehicles |-> vehicles,
                        rsu_recent |-> Recent(rbuf, t, RsuWindow),
                        alerts_recent |-> Recent(abuf, t, AlertWindow),
                        ssm_recent |-> Recent(sbuf, t, AlertWindow),
                        server_time |-> t]]

-----------------------------------------------------------------------------
(* ssm_desh.py: the detections kept in _recent_rsu and its snapshot *)

\* rsu_check of ssm_desh.py (lines 328-356): the body itself is appended to
\* _recent_rsu, stamped with d["_ts"]
rsu_check_desh(rbuf, d, ts) ==
    LET perr == RsuParseError(d)
        row == [f \in (DOMAIN d) \ {"fault"} |-> d[f]] @@ ("_ts" :> ts)
    IN  IF perr # ""
        THEN [rsu_buf |-> rbuf, resp |-> ErrorResponse("check_rsu", 400, perr)]
        ELSE [rsu_buf |-> IF Len(rbuf) >= RECENT_RSU_SIZE
                          THEN Append(Tail(rbuf), row) ELSE Append(rbuf, row),
              resp |-> [kind |-> "check_rsu", status |-> 200, body |-> [ok |-> TRUE]]]

\* snapshot of ssm_desh.py (lines 359-378): rsu = list(_recent_rsu)
snapshot_desh(store, rbuf, t) ==
    LET vehicles == [i \in 1..Len(store) |->
                        [veh_id |-> store[i].id, x |-> store[i].position[1],
                         y |-> store[i].position[2], speed |-> store[i].speed,
                         heading |-> store[i].heading,
                         timestamp |-> store[i].timestamp]]
    IN  IF \E i \in 1..Len(store) : Len(store[i].position) < 2
        THEN ErrorResponse("snapshot", 500, "IndexError")
        ELSE [kind |-> "snapshot", status |-> 200,
              body |-> [vehicles |-> vehicles, rsu_recent |-> rbuf,
                        server_time |-> t]]

-----------------------------------------------------------------------------
(* The simulation loop of run.py: roadside detection *)

\* float(s) for the texts a POI's range_m parameter takes in the model; the
\* empty text (a POI without the parameter, line 94) and a word do not parse
FloatOf(s) ==
    CASE s = "20" -> [ok |-> TRUE, val |-> 20]
      [] s = "0" -> [ok |-> TRUE, val |-> 0]
      [] OTHER -> [ok |-> FALSE, val |-> 0]

\* float(rsu.get("range_m", default)), default when float() raises
float_range(rsu_dict_entry) ==
    IF "range_m" \in DOMAIN rsu_dict_entry
    THEN IF FloatOf(rsu_dict_entry.range_m).ok
         THEN FloatOf(rsu_dict_entry.range_m).val
         ELSE 200
    ELSE 200

\* variant of InRange: the boundary is left out
InRange_Strict(d, rng) == d < rng

\* if d <= rng (lines 120 and 135)
InRange(d, rng) == d <= rng

\* the detections of one sensor over the entities of one kind, in list order
\* (lines 116-129 and 131-145); traci raises for an entity it does not know and
\* the except clause skips it
RECURSIVE DetectEach(_, _, _, _)
DetectEach(rsu, kind, ents, i) ==
    IF i > Len(ents) THEN <<>>
    ELSE LET e == ents[i]
             d == Hypot(e.x - rsu.x, e.y - rsu.y)
             rec == [rsu_id |-> rsu.id, rsu_x |-> rsu.x, rsu_y |-> rsu.y,
                     obj_type |-> kind, obj_id |-> e.id,
                     obj_x |-> e.x, obj_y |-> e.y,
                     distance_m |-> d, speed_mps |-> e.speed]
         IN  (IF e.known /\ InRange(d, float_range(rsu)) THEN <<rec>> ELSE <<>>)
             \o DetectEach(rsu, kind, ents, i + 1)

\* rsu_detect(rsu_list, veh_ids, ped_ids): for each sensor its vehicles, then
\* its pedestrians
RECURSIVE rsu_detect(_, _, _, _)
rsu_detect(rsu_list, vehs, peds, i) ==
    IF i > Len(rsu_list) THEN <<>>
    ELSE DetectEach(rsu_list[i], "vehicle", vehs, 1)
         \o DetectEach(rsu_list[i], "pedestrian", peds, 1)
         \o rsu_detect(rsu_list, vehs, peds, i + 1)

\* what list_rsus() returns: a POI sensor at (100,100) with its range_m text,
\* alone or followed by a native sensor on the same pole, which has no range_m
RangeTexts == {"20", "0", "", "abc"}
PoiRsu(rng) == [id |-> "RSU_A", x |-> 100, y |-> 100, type |-> "poi_rsu", range_m |-> rng]
NativeRsu == [id |-> "RSU_B", x |-> 100, y |-> 100, type |-> "native_rsu"]
RsuLists ==
    {<<PoiRsu(rng)>> : rng \in RangeTexts} \cup {<<PoiRsu(rng), NativeRsu>> : rng \in RangeTexts}

\* entity positions at whole distances from (100,100): 0, 15, 20 (twice), 30,
\* 200 and 201
SimPositions == {<<100, 100>>, <<115, 100>>, <<120, 100>>, <<112, 116>>,
                 <<130, 100>>, <<300, 100>>, <<301, 100>>}

\* one entity of the step as traci reports it; known is FALSE for an id that
\* left the simulation after the id list was read
SimEntities(i) ==
    {[id |-> i, x |-> p[1], y |-> p[2], speed |-> 5, known |-> TRUE] : p \in SimPositions}
    \cup {[id |-> i, x |-> 0, y |-> 0, speed |-> 0, known |-> FALSE]}

SimInit == [step |-> 0, rsus |-> <<>>, vehicles |-> <<>>, persons |-> <<>>,
            detections |-> <<>>]

\* the request threads of the web controller (app.run, line 311)
Handlers == {"h1", "h2"}

\* _monitor_state["running"] is False, monitor_stop_event is clear, no monitor
\* thread has been started, no request is in progress (lines 17-20)
MonitorInit ==
    [running |-> FALSE, stop_event |-> FALSE, loops |-> <<>>,
     handlers |-> [h \in Handlers |-> "idle"], replies |-> <<>>, calls |-> 0]

-----------------------------------------------------------------------------
(* Requests *)

VehIds == {"veh_1", "veh_2", "veh_3"}
PedIds == {"ped_1"}

\* positions with integer pairwise distances (3, 4, 5 and 6 metres)
Positions == {<<0, 0>>, <<3, 0>>, <<6, 0>>, <<3, 4>>}
\* a position list with one element: tuple() accepts it, indexing [1] does not
ShortPositions == {<<5>>}
Speeds == {0, 2, 5}
Headings == {0, 180}

Entity(i, p, s, h) == [id |-> i, position |-> p, speed |-> s, heading |-> h]

VehicleBody(i, p, s, h, f) ==
    [id |-> i, position |-> p, speed |-> s, heading |-> h, fault |-> f]

VehicleFaults == {"no_json", "no_id", "no_position", "position_not_iterable",
                  "speed_not_number"}

\* well-formed bodies over the whole input grid, for two vehicles
GridVehicleBodies ==
    {VehicleBody(i, p, s, h, "none") :
        i \in {"veh_1", "veh_2"}, p \in Positions, s \in Speeds, h \in Headings}

\* well-formed bodies of vehicles that drive to the right at 5 m/s
OrderVehicleBodies ==
    {VehicleBody(i, p, 5, 0, "none") : i \in VehIds, p \in {<<0, 0>>, <<3, 0>>}}

\* well-formed bodies of vehicles that drive at 5 m/s from x = 0 or x = 3
LaneVehicleBodies ==
    {VehicleBody(i, p, 5, h, "none") :
        i \in VehIds, p \in {<<0, 0>>, <<3, 0>>}, h \in Headings}

\* a body whose position has one element
ShortVehicleBodies ==
    {VehicleBody("veh_3", p, 5, 0, "none") : p \in ShortPositions}

\* one body for each way of being malformed
FaultyVehicleBodies ==
    {VehicleBody("veh_1", <<0, 0>>, 5, 0, f) : f \in VehicleFaults}

\* bodies of the requests that overlap: an update of veh_1 and a second vehicle
ThreadVehicleBodies ==
    {VehicleBody("veh_1", <<0, 0>>, 5, 0, "none"),
     VehicleBody("veh_1", <<3, 0>>, 5, 0, "none"),
     VehicleBody("veh_2", <<3, 0>>, 5, 180, "none")}

ServerVehicleBodies ==
    LaneVehicleBodies \cup ShortVehicleBodies
    \cup {d \in FaultyVehicleBodies : d.fault = "no_position"}

VruPayload(v, p, f) == [vehicle |-> v, pedestrian |-> p, fault |-> f]

\* well-formed bodies with degenerate values: two vehicles at the same place
\* or 3 m apart, at rest or moving
DegenerateVehicleBodies ==
    {VehicleBody(i, p, s, h, "none") :
        i \in {"veh_1", "veh_2"}, p \in {<<0, 0>>, <<3, 0>>}, s \in {0, 5},
        h \in Headings}

\* well-formed payloads with degenerate values: the pedestrian at the vehicle's
\* place or 3 m away, either side at rest or moving
DegenerateVruPayloads ==
    {VruPayload(Entity("veh_1", <<0, 0>>, vs, vh), Entity("ped_1", pp, ps, ph), "none") :
        vs \in {0, 5}, vh \in Headings, pp \in {<<0, 0>>, <<3, 0>>}, ps \in {0, 5},
        ph \in Headings}

VruFaults == {"no_json", "no_vehicle", "no_pedestrian", "position_not_iterable",
              "speed_not_number"}

GridVruPayloads ==
    {VruPayload(Entity("veh_1", vp, vs, vh), Entity("ped_1", pp, ps, ph), "none") :
        vp \in Positions, vs \in Speeds, vh \in Headings,
        pp \in Positions, ps \in Speeds, ph \in Headings}

ServerVruPayloads ==
    {VruPayload(Entity("veh_1", <<0, 0>>, 5, 180), Entity("ped_1", pp, 5, 0), "none") :
        pp \in {<<3, 0>>} \cup ShortPositions}
    \cup {VruPayload(Entity("veh_1", <<0, 0>>, 5, 0), Entity("ped_1", <<3, 0>>, 0, 0), f) :
            f \in {"no_pedestrian"}}

RsuBody(o, x, f) ==
    [rsu_id |-> "RSU_A", rsu_x |-> 0, rsu_y |-> 0, obj_type |-> "vehicle",
     obj_id |-> o, obj_x |-> x, obj_y |-> 0, distance_m |-> x, speed_mps |-> 5,
     fault |-> f]

\* detections of two objects
RingRsuBodies == {RsuBody("veh_1", 3, "none"), RsuBody("veh_2", 4, "none")}

\* two vehicles that meet head-on, 3 m apart
RingVehicleBodies ==
    {VehicleBody("veh_1", <<0, 0>>, 5, 0, "none"),
     VehicleBody("veh_2", <<3, 0>>, 5, 180, "none")}

RingVruPayloads ==
    {VruPayload(Entity("veh_1", <<0, 0>>, 5, 180), Entity("ped_1", <<3, 0>>, 5, 0),
                "none")}

ServerRsuBodies == {RsuBody("veh_1", 3, "none"), RsuBody("veh_1", 3, "not_object")}

-----------------------------------------------------------------------------
(* The server *)

Variants == {"noexcel", "pet"}

\* the server files with a /v2x/snapshot route; "desh" is ssm_desh.py
SnapshotVariants == {"noexcel", "pet", "desh"}

\* the worker threads of the development server (app.run serves each request
\* in a thread of its own)
Threads == {"t1", "t2"}

\* a worker that handles no request
Idle == [pc |-> "idle"]

\* the state after the module is loaded, for the server files V
InitOf(V) ==
    /\ variant \in V
    /\ vehicle_states = <<>>
    /\ ssm_buf = <<>>
    /\ alert_buf = <<>>
    /\ vru_buf = <<>>
    /\ rsu_buf = <<>>
    /\ now = 0
    /\ req = [kind |-> "none"]
    /\ resp = [kind |-> "none", status |-> 0]
    /\ accepted = <<>>
    /\ inserted = <<>>
    /\ ncalls = 0
    /\ log = <<>>
    /\ threads = [t \in Threads |-> Idle]
    /\ sim = SimInit
    /\ monitor = MonitorInit

Init == InitOf(Variants)

\* one POST /v2x/check/vehicle with a body of Bodies
CheckVehicle(Bodies, max) ==
    /\ ncalls < max
    /\ \E data \in Bodies :
       \E r \in {check_vehicle_risk(variant, vehicle_states, ssm_buf, alert_buf,
                                    data, now)} :
         LET parsed == data.fault = "none"
         IN  /\ vehicle_states' = r.store
             /\ ssm_buf' = r.ssm_buf
             /\ alert_buf' = r.alert_buf
             /\ resp' = r.resp
             /\ req' = [kind |-> "check_vehicle", data |-> data]
             /\ accepted' =
                  IF parsed
                  THEN [i \in (DOMAIN accepted) \cup {data.id} |->
                          IF i = data.id
                          THEN [position |-> data.position, speed |-> data.speed,
                                heading |-> data.heading, timestamp |-> now]
                          ELSE accepted[i]]
                  ELSE accepted
             /\ inserted' =
                  IF parsed /\ data.id \notin DOMAIN accepted
                  THEN Append(inserted, data.id) ELSE inserted
    /\ log' = Append(log, [req |-> req', ts |-> now, resp |-> resp'])
    /\ ncalls' = ncalls + 1
    /\ now' = now + 1
    /\ UNCHANGED <<vru_buf, rsu_buf, variant, sim, monitor, threads>>


\* variant of CheckVru: the handler also upserts the request's vehicle into
\* vehicle_states
CheckVru_StoresVehicle(Payloads, max) ==
    /\ ncalls < max
    /\ \E payload \in Payloads :
       \E r \in {vru_check_risk(vru_buf, payload, now)} :
         /\ vru_buf' = r.vru_buf
         /\ resp' = r.resp
         /\ req' = [kind |-> "check_vru", data |-> payload]
         /\ vehicle_states' =
              Upsert(vehicle_states, payload.vehicle.id,
                     [position |-> payload.vehicle.position,
                      speed |-> payload.vehicle.speed,
                      heading |-> payload.vehicle.heading, timestamp |-> now])
    /\ log' = Append(log, [req |-> req', ts |-> now, resp |-> resp'])
    /\ ncalls' = ncalls + 1
    /\ now' = now + 1
    /\ UNCHANGED <<ssm_buf, alert_buf, rsu_buf, accepted, inserted, variant, sim, monitor, threads>>

\* one POST /v2x/check/vru with a payload of Payloads
CheckVru(Payloads, max) ==
    /\ ncalls < max
    /\ \E payload \in Payloads :
       \E r \in {vru_check_risk(vru_buf, payload, now)} :
         /\ vru_buf' = r.vru_buf
         /\ resp' = r.resp
         /\ req' = [kind |-> "check_vru", data |-> payload]
    /\ log' = Append(log, [req |-> req', ts |-> now, resp |-> resp'])
    /\ ncalls' = ncalls + 1
    /\ now' = now + 1
    /\ UNCHANGED <<vehicle_states, ssm_buf, alert_buf, rsu_buf, accepted, inserted,
                   variant, sim, monitor, threads>>

\* one POST /v2x/check/rsu
CheckRsu(Bodies, max) ==
    /\ ncalls < max
    /\ \E d \in Bodies :
       \E r \in {IF variant = "desh" THEN rsu_check_desh(rsu_buf, d, now)
                 ELSE rsu_check(rsu_buf, d, now)} :
         /\ rsu_buf' = r.rsu_buf
         /\ resp' = r.resp
         /\ req' = [kind |-> "check_rsu", data |-> d]
    /\ log' = Append(log, [req |-> req', ts |-> now, resp |-> resp'])
    /\ ncalls' = ncalls + 1
    /\ now' = now + 1
    /\ UNCHANGED <<vehicle_states, ssm_buf, alert_buf, vru_buf, accepted, inserted,
                   variant, sim, monitor, threads>>

\* one GET /v2x/snapshot
Snapshot(max) ==
    /\ ncalls < max
    /\ resp' = IF variant = "desh" THEN snapshot_desh(vehicle_states, rsu_buf, now)
               ELSE snapshot(vehicle_states, rsu_buf, alert_buf, ssm_buf, now)
    /\ req' = [kind |-> "snapshot"]
    /\ log' = Append(log, [req |-> req', ts |-> now, resp |-> resp'])
    /\ ncalls' = ncalls + 1
    /\ now' = now + 1
    /\ UNCHANGED <<vehicle_states, ssm_buf, alert_buf, vru_buf, rsu_buf,
                   accepted, inserted, variant, sim, monitor, threads>>

-----------------------------------------------------------------------------
(* Requests handled in overlapping threads.  The handlers take no lock.  A  *)
(* step is what one thread does between two points where the interpreter    *)
(* may switch threads and another handler may touch the shared objects: the *)
(* read of the body and the clock, the dict assignment, the creation of an  *)
(* iterator, one turn of a loop.                                            *)

NoResponse == [kind |-> "none", status |-> 0]

\* the RuntimeError of a dict iterator and of a deque iterator
DictChangedSize == "RuntimeError: dictionary changed size during iteration"
DequeMutated == "RuntimeError: deque mutated during iteration"

\* every enumeration in progress sees the dict that now is store
Observe(th, store) ==
    [u \in Threads |->
        IF th[u].pc \in {"scan", "snap_scan"}
        THEN [th[u] EXCEPT !.stores = @ \cup {store}]
        ELSE th[u]]

\* data = request.get_json(force=True); ts = time.time(); the fields are parsed
\* (lines 90-96)
ReceiveVehicle(t, Bodies, max) ==
    /\ threads[t].pc = "idle"
    /\ ncalls < max
    /\ \E data \in Bodies :
         /\ threads' =
              [threads EXCEPT ![t] =
                 IF VehicleParseError(data) # ""
                 THEN [pc |-> "done", n |-> Len(log) + 1,
                       req |-> [kind |-> "check_vehicle", data |-> data],
                       resp |-> ErrorResponse("check_vehicle", 500,
                                              VehicleParseError(data))]
                 ELSE [pc |-> "upsert", n |-> Len(log) + 1,
                       req |-> [kind |-> "check_vehicle", data |-> data],
                       ego |-> [id |-> data.id, position |-> data.position,
                                speed |-> data.speed, heading |-> data.heading,
                                timestamp |-> now]]]
         /\ log' = Append(log, [req |-> [kind |-> "check_vehicle", data |-> data],
                                ts |-> now, resp |-> NoResponse])
    /\ ncalls' = ncalls + 1
    /\ now' = now + 1
    /\ UNCHANGED <<vehicle_states, ssm_buf, alert_buf, vru_buf, rsu_buf, variant, sim, monitor,
                   req, resp, accepted, inserted>>

\* vehicle_states[vid] = {...} (line 98)
UpsertVehicle(t) ==
    /\ threads[t].pc = "upsert"
    /\ \E ego \in {threads[t].ego} :
         /\ vehicle_states' = Upsert(vehicle_states, ego.id, ego)
         /\ accepted' =
              [i \in (DOMAIN accepted) \cup {ego.id} |->
                 IF i = ego.id
                 THEN [position |-> ego.position, speed |-> ego.speed,
                       heading |-> ego.heading, timestamp |-> ego.timestamp]
                 ELSE accepted[i]]
         /\ inserted' =
              IF ego.id \notin DOMAIN accepted
              THEN Append(inserted, ego.id) ELSE inserted
    /\ threads' = Observe([threads EXCEPT ![t].pc = "iter"], vehicle_states')
    /\ UNCHANGED <<ssm_buf, alert_buf, vru_buf, rsu_buf, variant, sim, monitor, now, req, resp,
                   ncalls, log>>

\* for other_id, other in vehicle_states.items(): the iterator is created and
\* remembers the size of the dict (line 104)
IterVehicle(t) ==
    /\ threads[t].pc = "iter"
    /\ threads' =
         [threads EXCEPT ![t] =
            [pc |-> "scan", n |-> @.n, req |-> @.req, ego |-> @.ego,
             i |-> 1, size |-> Len(vehicle_states),
             seen |-> <<>>, stores |-> {vehicle_states},
             ssm_list |-> <<>>, alerts |-> <<>>]]
    /\ UNCHANGED <<vehicle_states, ssm_buf, alert_buf, vru_buf, rsu_buf, variant, sim, monitor,
                   now, req, resp, accepted, inserted, ncalls, log>>

\* the answer of a handler that has left its loop
Done(th, r) == [pc |-> "done", n |-> th.n, req |-> th.req, resp |-> r,
                enumerated |-> TRUE, seen |-> th.seen, stores |-> th.stores]

\* one turn of the loop of check_vehicle_risk (lines 104-187): the iterator
\* raises RuntimeError when the dict has another size than at its creation,
\* stops at the end, and else yields the item that is in the dict now
ScanVehicle(t) ==
    /\ threads[t].pc = "scan"
    /\ \E th \in {threads[t]} :
         IF Len(vehicle_states) # th.size
         THEN /\ threads' = [threads EXCEPT ![t] =
                    Done(th, ErrorResponse("check_vehicle", 500, DictChangedSize))]
              /\ UNCHANGED <<ssm_buf, alert_buf>>
         ELSE IF th.i > th.size
         THEN /\ threads' = [threads EXCEPT ![t] =
                    Done(th, [kind |-> "check_vehicle", status |-> 200,
                              body |-> [vehicle_id |-> th.ego.id,
                                        ssm |-> th.ssm_list,
                                        alerts |-> FinalAlerts(th.alerts,
                                                               th.ego.timestamp)]])]
              /\ UNCHANGED <<ssm_buf, alert_buf>>
         ELSE \E other \in {vehicle_states[th.i]} :
                IF other.id = th.ego.id
                THEN /\ threads' = [threads EXCEPT ![t].i = @ + 1,
                                                   ![t].seen = Append(@, other)]
                     /\ UNCHANGED <<ssm_buf, alert_buf>>
                ELSE IF PairRaises(th.ego, other)
                THEN /\ threads' = [threads EXCEPT ![t] =
                           Done([th EXCEPT !.seen = Append(@, other)],
                                ErrorResponse("check_vehicle", 500, "IndexError"))]
                     /\ UNCHANGED <<ssm_buf, alert_buf>>
                ELSE \E acc \in {PairStep(variant, th.ego, other,
                                          [ssm_list |-> th.ssm_list,
                                           alerts |-> th.alerts,
                                           ssm_buf |-> ssm_buf,
                                           alert_buf |-> alert_buf,
                                           raised |-> ""])} :
                       /\ ssm_buf' = acc.ssm_buf
                       /\ alert_buf' = acc.alert_buf
                       /\ threads' = [threads EXCEPT ![t].i = @ + 1,
                                                     ![t].seen = Append(@, other),
                                                     ![t].ssm_list = acc.ssm_list,
                                                     ![t].alerts = acc.alerts]
    /\ UNCHANGED <<vehicle_states, vru_buf, rsu_buf, variant, sim, monitor, now, req, resp,
                   accepted, inserted, ncalls, log>>

\* now = time.time() (line 335)
ReceiveSnapshot(t, max) ==
    /\ threads[t].pc = "idle"
    /\ ncalls < max
    /\ threads' = [threads EXCEPT ![t] =
                     [pc |-> "snap_iter", n |-> Len(log) + 1,
                      req |-> [kind |-> "snapshot"], ts |-> now]]
    /\ log' = Append(log, [req |-> [kind |-> "snapshot"], ts |-> now,
                           resp |-> NoResponse])
    /\ ncalls' = ncalls + 1
    /\ now' = now + 1
    /\ UNCHANGED <<vehicle_states, ssm_buf, alert_buf, vru_buf, rsu_buf, variant, sim, monitor,
                   req, resp, accepted, inserted>>

\* [... for vid, v in vehicle_states.items()]: the iterator is created (line 344)
IterSnapshot(t) ==
    /\ threads[t].pc = "snap_iter"
    /\ threads' =
         [threads EXCEPT ![t] =
            [pc |-> "snap_scan", n |-> @.n, req |-> @.req, ts |-> @.ts,
             i |-> 1, size |-> Len(vehicle_states),
             seen |-> <<>>, stores |-> {vehicle_states}, vehicles |-> <<>>]]
    /\ UNCHANGED <<vehicle_states, ssm_buf, alert_buf, vru_buf, rsu_buf, variant, sim, monitor,
                   now, req, resp, accepted, inserted, ncalls, log>>

\* one turn of the comprehension over vehicle_states.items() (lines 337-344)
ScanSnapshot(t) ==
    /\ threads[t].pc = "snap_scan"
    /\ \E th \in {threads[t]} :
         threads' =
           [threads EXCEPT ![t] =
              IF Len(vehicle_states) # th.size
              THEN Done(th, ErrorResponse("snapshot", 500, DictChangedSize))
              ELSE IF th.i > th.size
              THEN [pc |-> "filter", n |-> th.n, req |-> th.req, ts |-> th.ts,
                    seen |-> th.seen, stores |-> th.stores,
                    vehicles |-> th.vehicles, k |-> 1, started |-> FALSE,
                    it |-> <<>>, recent |-> <<>>]
              ELSE IF Len(vehicle_states[th.i].position) < 2
              THEN Done([th EXCEPT !.seen = Append(@, vehicle_states[th.i])],
                        ErrorResponse("snapshot", 500, "IndexError"))
              ELSE [th EXCEPT
                      !.i = @ + 1,
                      !.seen = Append(@, vehicle_states[th.i]),
                      !.vehicles =
                         Append(@, [veh_id |-> vehicle_states[th.i].id,
                                    x |-> vehicle_states[th.i].position[1],
                                    y |-> vehicle_states[th.i].position[2],
                                    speed |-> vehicle_states[th.i].speed,
                                    heading |-> vehicle_states[th.i].heading,
                                    timestamp |-> vehicle_states[th.i].timestamp])]]
    /\ UNCHANGED <<vehicle_states, ssm_buf, alert_buf, vru_buf, rsu_buf, variant, sim, monitor,
                   now, req, resp, accepted, inserted, ncalls, log>>

\* the deques that snapshot filters, in the order of lines 346-348
FilteredBuf(k) == IF k = 1 THEN rsu_buf ELSE IF k = 2 THEN alert_buf ELSE ssm_buf
FilterWindow(k) == IF k = 1 THEN RsuWindow ELSE AlertWindow

\* [r for r in buf if ...]: the iterator of the deque is created
FilterStart(t) ==
    /\ threads[t].pc = "filter"
    /\ ~threads[t].started
    /\ threads' = [threads EXCEPT ![t].started = TRUE,
                                  ![t].it = FilteredBuf(threads[t].k)]
    /\ UNCHANGED <<vehicle_states, ssm_buf, alert_buf, vru_buf, rsu_buf, variant, sim, monitor,
                   now, req, resp, accepted, inserted, ncalls, log>>

\* the comprehension runs to its end (lines 346-348): the iterator of a deque
\* that still has items to yield raises RuntimeError when the deque was
\* appended to after its creation; after the third deque the response is built
FilterEnd(t) ==
    /\ threads[t].pc = "filter"
    /\ threads[t].started
    /\ \E th \in {threads[t]} :
         threads' =
           [threads EXCEPT ![t] =
              IF Len(th.it) > 0 /\ FilteredBuf(th.k) # th.it
              THEN Done(th, ErrorResponse("snapshot", 500, DequeMutated))
              ELSE IF th.k < 3
              THEN [th EXCEPT !.k = @ + 1, !.started = FALSE, !.it = <<>>,
                              !.recent = Append(@, Recent(th.it, th.ts,
                                                          FilterWindow(th.k)))]
              ELSE Done(th, [kind |-> "snapshot", status |-> 200,
                             body |-> [vehicles |-> th.vehicles,
                                       rsu_recent |-> th.recent[1],
                                       alerts_recent |-> th.recent[2],
                                       ssm_recent |-> Recent(th.it, th.ts,
                                                             FilterWindow(th.k)),
                                       server_time |-> th.ts]])]
    /\ UNCHANGED <<vehicle_states, ssm_buf, alert_buf, vru_buf, rsu_buf, variant, sim, monitor,
                   now, req, resp, accepted, inserted, ncalls, log>>

\* return jsonify(...): the response leaves the server
Return(t) ==
    /\ threads[t].pc = "done"
    /\ req' = threads[t].req
    /\ resp' = threads[t].resp
    /\ log' = [log EXCEPT ![threads[t].n].resp = threads[t].resp]
    /\ threads' = [threads EXCEPT ![t] = Idle]
    /\ UNCHANGED <<vehicle_states, ssm_buf, alert_buf, vru_buf, rsu_buf, variant, sim, monitor,
                   now, accepted, inserted, ncalls>>

Next ==
    \/ CheckVehicle(ServerVehicleBodies, MaxCalls)
    \/ CheckVru(ServerVruPayloads, MaxCalls)
    \/ CheckRsu(ServerRsuBodies, MaxCalls)
    \/ Snapshot(MaxCalls)

Spec == Init /\ [][Next]_vars

\* check_vehicle requests only, one after the other
NextVehicle ==
    CheckVehicle(LaneVehicleBodies \cup ShortVehicleBodies, MaxVehCalls)

SpecVehicle == InitOf({"noexcel"}) /\ [][NextVehicle]_vars

\* check_vehicle requests of three vehicles, long enough for an id to be
\* upserted again before the third is inserted
NextOrder ==
    CheckVehicle(OrderVehicleBodies, MaxOrderCalls)

SpecOrder == InitOf({"noexcel"}) /\ [][NextOrder]_vars

\* the server is idle for d seconds, before the clock reads limit
Advance(d, limit) ==
    /\ now < limit
    /\ now' = now + d
    /\ UNCHANGED <<vehicle_states, ssm_buf, alert_buf, vru_buf, rsu_buf, variant, sim, monitor,
                   req, resp, accepted, inserted, ncalls, log, threads>>

\* idle periods that bring a record of the first seconds to the edge of a window
Jumps == {59, 599}

\* detections, vehicle updates and snapshots around one idle period; the
\* vehicle handler of ssm_desh.py keeps no buffer and is left out
NextWindow ==
    \/ CheckRsu(RingRsuBodies, MaxWindowCalls)
    \/ (variant # "desh" /\ CheckVehicle(RingVehicleBodies, MaxWindowCalls))
    \/ Snapshot(MaxWindowCalls)
    \/ \E d \in Jumps : Advance(d, MaxWindowCalls)

SpecWindow == InitOf(SnapshotVariants) /\ [][NextWindow]_vars

\* requests that append to the four ring buffers of ssm_dash_noexcel.py, or to
\* _recent_rsu of ssm_desh.py, more than the buffers hold
NextRing ==
    \/ (variant # "desh" /\ CheckVehicle(RingVehicleBodies, MaxRingCalls))
    \/ (variant # "desh" /\ CheckVru(RingVruPayloads, MaxRingCalls))
    \/ CheckRsu(RingRsuBodies, MaxRingCalls)

SpecRing == InitOf({"noexcel", "desh"}) /\ [][NextRing]_vars

\* check_vehicle and snapshot requests served by two threads that overlap
NextThreads ==
    \E t \in Threads :
        \/ ReceiveVehicle(t, ThreadVehicleBodies, MaxThreadCalls)
        \/ UpsertVehicle(t)
        \/ IterVehicle(t)
        \/ ScanVehicle(t)
        \/ ReceiveSnapshot(t, MaxThreadCalls)
        \/ IterSnapshot(t)
        \/ ScanSnapshot(t)
        \/ FilterStart(t)
        \/ FilterEnd(t)
        \/ Return(t)

SpecThreads == InitOf({"noexcel"}) /\ [][NextThreads]_vars

\* check_vehicle over the input grid: every pair of snapshots meets
NextGridVehicle ==
    \/ CheckVehicle(GridVehicleBodies, MaxGridVehCalls)
    \/ CheckVehicle(FaultyVehicleBodies, MaxGridVehCalls)

SpecGridVehicle == InitOf({"noexcel"}) /\ [][NextGridVehicle]_vars

\* check_vehicle of ssm_dash_noexcel_pet.py over the input grid
SpecGridPet == InitOf({"pet"}) /\ [][NextGridVehicle]_vars

\* check_vehicle and check_vru with degenerate values
NextDegenerate ==
    \/ CheckVehicle(DegenerateVehicleBodies, MaxDegenerateCalls)
    \/ CheckVru(DegenerateVruPayloads, MaxDegenerateCalls)

SpecDegenerate == InitOf({"noexcel"}) /\ [][NextDegenerate]_vars

\* check_vru over the input grid
NextGridVru ==
    \/ CheckVru(GridVruPayloads, MaxGridVruCalls)
    \/ CheckVru({VruPayload(Entity("veh_1", <<0, 0>>, 5, 0),
                            Entity("ped_1", <<3, 0>>, 0, 0), f) : f \in VruFaults},
                MaxGridVruCalls)

SpecGridVru == InitOf({"noexcel"}) /\ [][NextGridVru]_vars

\* one step of the simulation loop (lines 400-409): the sensors are listed and
\* the scan runs over the step's vehicles and pedestrians
SimStep ==
    /\ sim.step < MaxSimSteps
    /\ \E rsus \in RsuLists, v \in SimEntities("veh_1"), p \in SimEntities("ped_1") :
         sim' = [step |-> sim.step + 1, rsus |-> rsus, vehicles |-> <<v>>,
                 persons |-> <<p>>,
                 detections |-> rsu_detect(rsus, <<v>>, <<p>>, 1)]
    /\ UNCHANGED <<vehicle_states, ssm_buf, alert_buf, vru_buf, rsu_buf, variant,
                   now, req, resp, accepted, inserted, ncalls, log, threads, monitor>>

SpecSim == InitOf({"noexcel"}) /\ [][SimStep]_vars

-----------------------------------------------------------------------------
(* run_with_flask.py: the monitor thread and its /start and /stop requests *)

\* every variable of the SSM server and of the simulation loop
server_vars == <<vehicle_states, ssm_buf, alert_buf, vru_buf, rsu_buf, variant, now,
                 req, resp, accepted, inserted, ncalls, log, threads, sim>>

\* POST /start: if _monitor_state.get("running") the request is answered
\* 'monitor already running' (lines 118-119)
WebStart(h) ==
    /\ monitor.handlers[h] = "idle"
    /\ monitor.calls < MaxMonitorCalls
    /\ monitor' =
         IF monitor.running
         THEN [monitor EXCEPT
                 !.calls = @ + 1,
                 !.replies = Append(@, [ok |-> FALSE,
                                        reason |-> "monitor already running",
                                        alive |-> Len(SelectSeq(monitor.loops,
                                                        LAMBDA pc : pc # "exited"))])]
         ELSE [monitor EXCEPT !.calls = @ + 1, !.handlers[h] = "clear"]
    /\ UNCHANGED server_vars

\* monitor_stop_event.clear() (line 120)
StartClear(h) ==
    /\ monitor.handlers[h] = "clear"
    /\ monitor' = [monitor EXCEPT !.stop_event = FALSE, !.handlers[h] = "spawn"]
    /\ UNCHANGED server_vars

\* monitor_thread = threading.Thread(...); monitor_thread.start() (lines 127-128)
StartSpawn(h) ==
    /\ monitor.handlers[h] = "spawn"
    /\ monitor' = [monitor EXCEPT !.loops = Append(@, "new"),
                                  !.handlers[h] = "started"]
    /\ UNCHANGED server_vars

\* time.sleep(0.6) and the answer of /start (lines 130-131)
StartReturn(h) ==
    /\ monitor.handlers[h] = "started"
    /\ monitor' = [monitor EXCEPT
                     !.handlers[h] = "idle",
                     !.replies = Append(@, [ok |-> TRUE,
                                            monitor_running |-> monitor.running])]
    /\ UNCHANGED server_vars

\* POST /stop: monitor_stop_event.set() (line 135)
WebStop(h) ==
    /\ monitor.handlers[h] = "idle"
    /\ monitor.calls < MaxMonitorCalls
    /\ monitor' = [monitor EXCEPT !.calls = @ + 1, !.stop_event = TRUE,
                                  !.handlers[h] = "stopping"]
    /\ UNCHANGED server_vars

\* time.sleep(0.4) and the answer of /stop (lines 138-139)
StopReturn(h) ==
    /\ monitor.handlers[h] = "stopping"
    /\ monitor' = [monitor EXCEPT !.handlers[h] = "idle",
                                  !.replies = Append(@, [ok |-> TRUE])]
    /\ UNCHANGED server_vars

\* the monitor thread begins: _monitor_state["running"] = True (line 96)
LoopBegin(i) ==
    /\ i \in DOMAIN monitor.loops
    /\ monitor.loops[i] = "new"
    /\ monitor' = [monitor EXCEPT !.running = TRUE, !.loops[i] = "loop"]
    /\ UNCHANGED server_vars

\* while not monitor_stop_event.is_set(): the loop ends when the event is
\* set (line 101)
LoopExit(i) ==
    /\ i \in DOMAIN monitor.loops
    /\ monitor.loops[i] = "loop"
    /\ monitor.stop_event
    /\ monitor' = [monitor EXCEPT !.loops[i] = "finally"]
    /\ UNCHANGED server_vars

\* finally: _monitor_state["running"] = False, and the thread ends (line 113)
LoopFinally(i) ==
    /\ i \in DOMAIN monitor.loops
    /\ monitor.loops[i] = "finally"
    /\ monitor' = [monitor EXCEPT !.running = FALSE, !.loops[i] = "exited"]
    /\ UNCHANGED server_vars

NextMonitor ==
    \/ \E h \in Handlers :
          \/ WebStart(h)
          \/ StartClear(h)
          \/ StartSpawn(h)
          \/ StartReturn(h)
          \/ WebStop(h)
          \/ StopReturn(h)
    \/ \E i \in 1..MaxMonitorCalls :
          \/ LoopBegin(i)
          \/ LoopExit(i)
          \/ LoopFinally(i)

SpecMonitor == InitOf({"noexcel"}) /\ [][NextMonitor]_vars

-----------------------------------------------------------------------------
(* What the properties read from a state *)

VehicleOk == resp.kind = "check_vehicle" /\ resp.status = 200
VruOk == resp.kind = "check_vru" /\ resp.status = 200

\* the last k entries of a buffer
LastRows(buf, k) == SubSeq(buf, Len(buf) - k + 1, Len(buf))

\* the ssm_buf rows appended by the check_vehicle call just answered
CallRows == LastRows(ssm_buf, Len(resp.body.ssm))

StoreGet(store, id) == store[CHOOSE i \in 1..Len(store) : store[i].id = id]

\* a buffered value that may be None, as a number or infinity
ValOrInf(x) == IF IsNone(x) THEN INF ELSE x

IsSentinel(a) == DOMAIN a = {"action", "timestamp"} /\ a.action = "safe"
IsPairAlert(a) ==
    "type" \in DOMAIN a /\ a.type \in {"collision_imminent", "collision_warning"}

\* the alerts of the response that name the entity other
AlertsTo(other) ==
    SelectSeq(resp.body.alerts, LAMBDA a : "to" \in DOMAIN a /\ a.to = other)

\* the vehicle-vehicle risk of a buffered row as the specification tabulates it,
\* in tenths
TableRisk(row) ==
    LET t == ValOrInf(row.ttc)
        a == IF RLt(t, ONE) THEN 6
             ELSE IF RLe(ONE, t) /\ RLt(t, <<5, 2>>) THEN 3 ELSE 0
        b == IF RGt(row.req_dec, RInt(5)) THEN 2 ELSE 0
        c == IF RGt(row.delta_v, RInt(5)) THEN 2 ELSE 0
    IN  IF a + b + c > 10 THEN 10 ELSE a + b + c

\* velocity vector of a stored entity
Velocity(e) == <<e.speed * CosDeg(e.heading), e.speed * SinDeg(e.heading)>>

\* rate of change of half the squared gap between two entities: negative when
\* the gap shrinks, positive when it grows
GapRate(e, o) ==
    (o.position[1] - e.position[1]) * (Velocity(o)[1] - Velocity(e)[1])
    + (o.position[2] - e.position[2]) * (Velocity(o)[2] - Velocity(e)[2])

-----------------------------------------------------------------------------
(* Claims *)

\* C1: in check_vehicle the risk of each pair is 0.6 for ttc < 1.0, else 0.3 for
\* 1.0 <= ttc < 2.5, plus 0.2 for required deceleration > 5.0, plus 0.2 for
\* delta-v > 5.0, clamped to 1.0; the pair has an alert iff risk >= 0.4, which is
\* collision_imminent/emergency_brake iff risk >= 0.8 and
\* collision_warning/slow_down iff 0.4 <= risk < 0.8.
C1_RiskTable ==
    VehicleOk =>
        \A j \in 1..Len(CallRows) :
            LET row == CallRows[j]
                r == TableRisk(row)
                al == AlertsTo(row.other)
            IN  /\ row.ego = resp.body.vehicle_id
                /\ Len(al) <= 1
                /\ (Len(al) = 1) <=> (r >= 4)
                /\ \A k \in 1..Len(al) :
                     /\ al[k].risk_score = Rat(r, 10)
                     /\ (al[k].type = "collision_imminent"
                         /\ al[k].recommended_action = "emergency_brake") <=> (r >= 8)
                     /\ (al[k].type = "collision_warning"
                         /\ al[k].recommended_action = "slow_down") <=> (r >= 4 /\ r < 8)

\* a pair whose risk is exactly 0.8 has been answered with collision_imminent
C1_Witness ==
    /\ VehicleOk
    /\ \E j \in 1..Len(CallRows) :
         /\ TableRisk(CallRows[j]) = 8
         /\ Len(AlertsTo(CallRows[j].other)) = 1
         /\ AlertsTo(CallRows[j].other)[1].type = "collision_imminent"

\* C2: the closing speed computed for an ego/other pair at distinct positions is
\* positive when the gap between them is shrinking and negative when it is
\* growing, and 0 when the two positions coincide.
C2_ClosingSign ==
    VehicleOk =>
        \A j \in 1..Len(CallRows) :
            LET row == CallRows[j]
                ego == StoreGet(vehicle_states, row.ego)
                other == StoreGet(vehicle_states, row.other)
                rate == GapRate(ego, other)
            IN  /\ (ego.position # other.position /\ rate < 0) => RGt(row.closing, ZERO)
                /\ (ego.position # other.position /\ rate > 0) => RLt(row.closing, ZERO)
                /\ (ego.position = other.position) => row.closing = ZERO

\* C3: when ego and a stored vehicle drive straight toward each other with gap
\* d > 0 and combined approach speed c > 0, the SSM record of the pair reports
\* ttc = d/c, and when d/c < 1.0 and c > 5 the pair has a collision_imminent
\* alert with recommended_action emergency_brake.
C3_HeadOn ==
    VehicleOk =>
        \A j \in 1..Len(resp.body.ssm) :
            LET rec == resp.body.ssm[j]
                ego == StoreGet(vehicle_states, resp.body.vehicle_id)
                other == StoreGet(vehicle_states, rec.other_id)
                d == IAbs(other.position[1] - ego.position[1])
                c == ego.speed + other.speed
                toward ==
                    /\ ego.position[2] = other.position[2]
                    /\ \/ /\ ego.position[1] < other.position[1]
                          /\ ego.heading = 0 /\ other.heading = 180
                       \/ /\ ego.position[1] > other.position[1]
                          /\ ego.heading = 180 /\ other.heading = 0
            IN  (toward /\ c > 0) =>
                    /\ rec.ttc = Round3(Rat(d, c))
                    /\ (d < c /\ c > 5) =>
                         \E k \in 1..Len(resp.body.alerts) :
                            LET a == resp.body.alerts[k]
                            IN  /\ IsPairAlert(a)
                                /\ a.to = rec.other_id
                                /\ a.type = "collision_imminent"
                                /\ a.recommended_action = "emergency_brake"

\* C4: a successful check_vehicle response has a non-empty alerts list, which is
\* exactly one 'safe' sentinel iff no scanned pair reached risk >= 0.4 (also when
\* the store holds no other entity), and which otherwise holds pair alerts only.
C4_AlertsOrSentinel ==
    VehicleOk =>
        LET al == resp.body.alerts
            risky == \E j \in 1..Len(CallRows) : TableRisk(CallRows[j]) >= 4
        IN  /\ Len(al) >= 1
            /\ (Len(al) = 1 /\ IsSentinel(al[1])) <=> ~risky
            /\ risky => \A k \in 1..Len(al) : IsPairAlert(al[k]) /\ ~IsSentinel(al[k])

\* two pairs were scanned, one reached 0.4 and the other did not
C4_Witness ==
    /\ VehicleOk
    /\ Len(resp.body.ssm) = 2
    /\ Len(resp.body.alerts) = 1
    /\ IsPairAlert(resp.body.alerts[1])

\* C5: check_vru answers emergency_brake/high iff ttc < 1.0 or pet < 0.5 or
\* required deceleration > 6.0, otherwise slow_down/medium iff ttc < 2.5 or
\* pet < 1.5 or required deceleration > 3.0, otherwise keep/low; a null ttc or pet
\* counts as infinite, and the risk score plays no part.
C5_VruGuards ==
    VruOk =>
        LET row == vru_buf[Len(vru_buf)]
            t == ValOrInf(row.ttc)
            p == ValOrInf(row.pet)
            q == row.req_dec
            hi == RLt(t, ONE) \/ RLt(p, <<1, 2>>) \/ RGt(q, RInt(6))
            mid == RLt(t, <<5, 2>>) \/ RLt(p, <<3, 2>>) \/ RGt(q, RInt(3))
            given == <<resp.body.recommended_action, resp.body.severity>>
        IN  /\ given \in {<<"emergency_brake", "high">>, <<"slow_down", "medium">>,
                          <<"keep", "low">>}
            /\ (given = <<"emergency_brake", "high">>) <=> hi
            /\ (given = <<"slow_down", "medium">>) <=> (~hi /\ mid)
            /\ (given = <<"keep", "low">>) <=> (~hi /\ ~mid)
            /\ row.action = resp.body.recommended_action

\* a response whose risk score is 0 and whose action is slow_down
C5_Witness ==
    /\ VruOk
    /\ resp.body.risk_score = ZERO
    /\ resp.body.recommended_action = "slow_down"

InUnit(x) == RGe(x, ZERO) /\ RLe(x, ONE)

\* C6: the risk score of every alert of a check_vehicle response, of every
\* check_vru response and of every record in alert_buf and vru_buf is in [0, 1].
C6_RiskInUnit ==
    /\ \A i \in 1..Len(alert_buf) : InUnit(alert_buf[i].risk)
    /\ \A i \in 1..Len(vru_buf) : InUnit(vru_buf[i].risk)
    /\ VehicleOk =>
         \A k \in 1..Len(resp.body.alerts) :
            IsPairAlert(resp.body.alerts[k]) => InUnit(resp.body.alerts[k].risk_score)
    /\ VruOk => InUnit(resp.body.risk_score)

\* a check_vru whose three contributions add up to 1.1 was answered with risk 1
C6_Witness ==
    /\ VruOk
    /\ LET row == vru_buf[Len(vru_buf)]
       IN  /\ RLt(ValOrInf(row.ttc), ONE)
           /\ RLt(ValOrInf(row.pet), ONE)
           /\ RGt(row.req_dec, RInt(5))
           /\ row.risk = ONE
    /\ resp.body.risk_score = ONE

\* C7: after any sequence of check_vehicle calls the store holds exactly one
\* record per id that was upserted, with the position, speed, heading and
\* timestamp of the most recent such call for that id; the records of other ids
\* are those of their own most recent call.
C7_LastWriteWins ==
    /\ StoreIds(vehicle_states) = DOMAIN accepted
    /\ Len(vehicle_states) = Cardinality(DOMAIN accepted)
    /\ \A i \in 1..Len(vehicle_states) :
         LET e == vehicle_states[i]
         IN  /\ e.position = accepted[e.id].position
             /\ e.speed = accepted[e.id].speed
             /\ e.heading = accepted[e.id].heading
             /\ e.timestamp = accepted[e.id].timestamp

\* the id inserted first was written again, later than the second id and at
\* another position than the one the second id was scanned against
C7_Witness ==
    /\ Len(vehicle_states) >= 2
    /\ vehicle_states[1].timestamp > vehicle_states[2].timestamp
    /\ Len(vehicle_states[1].position) = 2
    /\ Len(vehicle_states[2].position) = 2
    /\ \E i \in 1..Len(ssm_buf) :
         /\ ssm_buf[i].ego = vehicle_states[2].id
         /\ ssm_buf[i].other = vehicle_states[1].id
         /\ ssm_buf[i].ts = vehicle_states[2].timestamp
         /\ ssm_buf[i].dist # RInt(euclidean_distance(vehicle_states[1].position,
                                                      vehicle_states[2].position))

\* C8: a successful check_vehicle response for ego e has exactly one SSM record
\* for each stored id other than e and none for e, in the order in which those
\* ids were first inserted.
C8_InsertionOrder ==
    VehicleOk =>
        LET e == resp.body.vehicle_id
            ids == [j \in 1..Len(resp.body.ssm) |-> resp.body.ssm[j].other_id]
        IN  /\ ids = SelectSeq(inserted, LAMBDA x : x # e)
            /\ {ids[j] : j \in 1..Len(ids)} = StoreIds(vehicle_states) \ {e}

\* the first id was upserted again after the second was inserted, and the third
\* id then got the first before the second although the second is nearer
C8_Witness ==
    /\ VehicleOk
    /\ Len(inserted) = 3
    /\ resp.body.vehicle_id = inserted[3]
    /\ Len(resp.body.ssm) = 2
    /\ resp.body.ssm[1].other_id = inserted[1]
    /\ RGt(resp.body.ssm[1].distance, resp.body.ssm[2].distance)
    /\ Len(ssm_buf) = 3
    /\ ssm_buf[1].ego = inserted[1]
    /\ ssm_buf[1].other = inserted[2]

\* C9: whenever check_vehicle, check_vru or check_rsu answers with an error, the
\* entity store and every ring buffer are as they were before the request.
C9_ErrorLeavesState ==
    [][(ncalls' = ncalls + 1 /\ resp'.status # 200) =>
          /\ vehicle_states' = vehicle_states
          /\ ssm_buf' = ssm_buf
          /\ alert_buf' = alert_buf
          /\ vru_buf' = vru_buf
          /\ rsu_buf' = rsu_buf]_vars

\* C10: when the computation against one stored entity fails during a
\* check_vehicle scan, the response is still a result that holds the SSM record
\* of every other stored entity whose computation succeeds.
C10_ScanContinues ==
    (/\ req.kind = "check_vehicle"
     /\ req.data.fault = "none"
     /\ Len(req.data.position) = 2
     /\ \E i \in 1..Len(vehicle_states) : Len(vehicle_states[i].position) < 2)
    =>
        /\ resp.status = 200
        /\ \A i \in 1..Len(vehicle_states) :
             (vehicle_states[i].id # req.data.id /\ Len(vehicle_states[i].position) = 2)
             => \E j \in 1..Len(resp.body.ssm) :
                    resp.body.ssm[j].other_id = vehicle_states[i].id

-----------------------------------------------------------------------------
(* C11-C20 *)

\* a thread that has left an enumeration of vehicle_states
Enumerated(t) ==
    threads[t].pc = "done" /\ "enumerated" \in DOMAIN threads[t]

\* C11: an enumeration of the entity store that overlaps upserts of other
\* requests ends without the iterator's error, and the items it has yielded are
\* the store as it was at one instant between the creation of the iterator and
\* its end
C11_EnumerationLinearizable ==
    \A t \in Threads :
        Enumerated(t) =>
            /\ ~(threads[t].resp.status # 200
                 /\ threads[t].resp.body.error = DictChangedSize)
            /\ threads[t].seen \in threads[t].stores

\* the check_vehicle requests of the log that the server read after the k-th
LaterFor(k) ==
    {j \in (k + 1)..Len(log) :
        /\ log[j].req.kind = "check_vehicle"
        /\ log[j].req.data.fault = "none"
        /\ log[j].req.data.id = log[k].req.data.id}

\* C12: once every overlapping check_vehicle request has returned, each id that
\* was submitted is in the store, with the position, speed and heading of the
\* request for that id that the server received last
C12_ReceiptOrder ==
    (\A t \in Threads : threads[t].pc = "idle") =>
        \A k \in 1..Len(log) :
            (/\ log[k].req.kind = "check_vehicle"
             /\ log[k].req.data.fault = "none"
             /\ LaterFor(k) = {}) =>
                /\ log[k].req.data.id \in StoreIds(vehicle_states)
                /\ StoreGet(vehicle_states, log[k].req.data.id).position
                     = log[k].req.data.position
                /\ StoreGet(vehicle_states, log[k].req.data.id).speed
                     = log[k].req.data.speed
                /\ StoreGet(vehicle_states, log[k].req.data.id).heading
                     = log[k].req.data.heading

\* the ring buffers by name
Buffers == {"ssm", "alert", "vru", "rsu"}
BufOf(b) ==
    CASE b = "ssm" -> ssm_buf
      [] b = "alert" -> alert_buf
      [] b = "vru" -> vru_buf
      [] b = "rsu" -> rsu_buf

\* the time stamp of a buffered record (ssm_desh.py stamps "_ts")
TsOf(row) == IF "_ts" \in DOMAIN row THEN row["_ts"] ELSE row.ts

\* the capacity of buffer b in the server file that runs
CapOf(b) == IF variant = "desh" THEN RECENT_RSU_SIZE ELSE BUF_SIZE

\* what identifies a row of buffer b: its timestamp and the two ids it names
KeyOf(b, row) ==
    CASE b = "ssm" -> <<row.ts, row.ego, row.other>>
      [] b = "alert" -> <<row.ts, row.from, row.to>>
      [] b = "vru" -> <<row.ts, row.veh_id, row.ped_id>>
      [] b = "rsu" -> <<TsOf(row), row.rsu_id, row.obj_id>>

\* the rows that the answered request e of the log has appended to buffer b,
\* read from its body and its response
RowsOf(b, e) ==
    IF e.resp.status # 200 THEN <<>>
    ELSE CASE b = "ssm" /\ e.req.kind = "check_vehicle" ->
                [j \in 1..Len(e.resp.body.ssm) |->
                    <<e.ts, e.req.data.id, e.resp.body.ssm[j].other_id>>]
           [] b = "alert" /\ e.req.kind = "check_vehicle" ->
                [j \in 1..Len(SelectSeq(e.resp.body.alerts, IsPairAlert)) |->
                    <<e.ts, e.req.data.id,
                      SelectSeq(e.resp.body.alerts, IsPairAlert)[j].to>>]
           [] b = "vru" /\ e.req.kind = "check_vru" ->
                << <<e.ts, e.req.data.vehicle.id, e.req.data.pedestrian.id>> >>
           [] b = "rsu" /\ e.req.kind = "check_rsu" ->
                << <<e.ts, e.req.data.rsu_id, e.req.data.obj_id>> >>
           [] OTHER -> <<>>

\* every row appended to buffer b by the first k requests, in arrival order
RECURSIVE Appended(_, _)
Appended(b, k) ==
    IF k = 0 THEN <<>> ELSE Appended(b, k - 1) \o RowsOf(b, log[k])

Min(a, b) == IF a < b THEN a ELSE b

\* C13: after n appends each ring buffer holds the last min(n, capacity) of the
\* records appended to it, in arrival order
C13_RingBuffer ==
    \A b \in Buffers :
        LET n == Len(Appended(b, Len(log)))
            kept == Min(n, CapOf(b))
        IN  /\ Len(BufOf(b)) = kept
            /\ [i \in 1..kept |-> KeyOf(b, BufOf(b)[i])]
                 = SubSeq(Appended(b, Len(log)), n - kept + 1, n)

\* two appends more than a buffer holds (5 appends to a buffer of 3): the first
\* two records are gone
C13_Witness ==
    \E b \in Buffers :
        /\ variant = "noexcel"
        /\ Len(Appended(b, Len(log))) = BUF_SIZE + 2
        /\ Len(BufOf(b)) = BUF_SIZE
        /\ KeyOf(b, BufOf(b)[1]) = Appended(b, Len(log))[3]

SnapshotOk == resp.kind = "snapshot" /\ resp.status = 200

\* the records of buf that are at most age seconds old at time t, in buffer order
Within(buf, t, age) == SelectSeq(buf, LAMBDA r : t - TsOf(r) <= age)

\* what a snapshot of ssm_dash_noexcel.py and ssm_dash_noexcel_pet.py returns
WindowsOf(body) ==
    /\ body.rsu_recent = Within(rsu_buf, body.server_time, 60)
    /\ body.alerts_recent = Within(alert_buf, body.server_time, 600)
    /\ body.ssm_recent = Within(ssm_buf, body.server_time, 600)

NoneOrPositive(x) == IsNone(x) \/ RGt(x, ZERO)

\* C15: every SSM record in a response, in ssm_buf or in vru_buf has a distance
\* of at least 0 and a ttc and a time headway that are None or greater than 0
C15_SsmSigns ==
    /\ \A i \in 1..Len(ssm_buf) :
          /\ RGe(ssm_buf[i].dist, ZERO)
          /\ NoneOrPositive(ssm_buf[i].ttc)
          /\ NoneOrPositive(ssm_buf[i].thw)
    /\ \A i \in 1..Len(vru_buf) :
          /\ RGe(vru_buf[i].dist, ZERO)
          /\ NoneOrPositive(vru_buf[i].ttc)
          /\ NoneOrPositive(vru_buf[i].thw)
    /\ VehicleOk =>
          \A i \in 1..Len(resp.body.ssm) :
              /\ RGe(resp.body.ssm[i].distance, ZERO)
              /\ NoneOrPositive(resp.body.ssm[i].ttc)
              /\ NoneOrPositive(resp.body.ssm[i].time_headway)
    /\ VruOk =>
          /\ RGe(resp.body.distance, ZERO)
          /\ NoneOrPositive(resp.body.ttc)
          /\ NoneOrPositive(resp.body.time_headway)

\* pairs of stored entities that are complete and at distinct positions
DistinctPairs ==
    {p \in (1..Len(vehicle_states)) \X (1..Len(vehicle_states)) :
        /\ p[1] # p[2]
        /\ Len(vehicle_states[p[1]].position) = 2
        /\ Len(vehicle_states[p[2]].position) = 2
        /\ vehicle_states[p[1]].position # vehicle_states[p[2]].position}

\* C16 as stated: for two stored entities at distinct positions the distance
\* is the same in both directions and the closing speed with A as ego is the
\* negation of the closing speed with B as ego
C16_ClosingAntisymmetric ==
    \A p \in DistinctPairs :
        /\ PairSSM(vehicle_states[p[1]], vehicle_states[p[2]]).distance
             = PairSSM(vehicle_states[p[2]], vehicle_states[p[1]]).distance
        /\ PairSSM(vehicle_states[p[1]], vehicle_states[p[2]]).closing
             = RNeg(PairSSM(vehicle_states[p[2]], vehicle_states[p[1]]).closing)

\* C16 as amended: the distance and the closing speed are the same in both
\* directions
C16_ClosingSymmetric ==
    \A p \in DistinctPairs :
        /\ PairSSM(vehicle_states[p[1]], vehicle_states[p[2]]).distance
             = PairSSM(vehicle_states[p[2]], vehicle_states[p[1]]).distance
        /\ PairSSM(vehicle_states[p[1]], vehicle_states[p[2]]).closing
             = PairSSM(vehicle_states[p[2]], vehicle_states[p[1]]).closing

\* two stored entities at distinct positions and different velocities whose
\* closing speed is not 0
C16_Witness ==
    \E p \in DistinctPairs :
        /\ vehicle_states[p[1]].speed # vehicle_states[p[2]].speed
        /\ PairSSM(vehicle_states[p[1]], vehicle_states[p[2]]).closing # ZERO
        /\ \E i \in 1..Len(ssm_buf) :
              /\ ssm_buf[i].ego = vehicle_states[p[2]].id
              /\ ssm_buf[i].other = vehicle_states[p[1]].id
              /\ ssm_buf[i].closing
                   = PairSSM(vehicle_states[p[2]], vehicle_states[p[1]]).closing

\* the request's vehicle drives along the x axis straight at the request's
\* pedestrian, who stands still
StraightAtPedestrian(v, p) ==
    /\ v.speed > 0 /\ p.speed = 0
    /\ v.position[2] = p.position[2]
    /\ \/ v.position[1] < p.position[1] /\ v.heading = 0
       \/ v.position[1] > p.position[1] /\ v.heading = 180

\* C17: check_vru for a vehicle moving at speed v > 0 straight toward a
\* stationary pedestrian at distance d > 0 reports closing_speed = v and
\* ttc = d/v, and when d/v < 1.0 answers emergency_brake with severity high
C17_VruStraightApproach ==
    (VruOk /\ StraightAtPedestrian(req.data.vehicle, req.data.pedestrian)) =>
        LET v == req.data.vehicle.speed
            d == IAbs(req.data.pedestrian.position[1] - req.data.vehicle.position[1])
        IN  /\ resp.body.distance = Round3(RInt(d))
            /\ resp.body.closing_speed = Round3(RInt(v))
            /\ resp.body.ttc = Round3(Rat(d, v))
            /\ d < v => /\ resp.body.recommended_action = "emergency_brake"
                        /\ resp.body.severity = "high"

\* the ids of the store, in insertion order
IdOrder(store) == [i \in 1..Len(store) |-> store[i].id]

\* an alerts list without the timestamp of its 'safe' sentinel
NoSentinelTime(alerts) ==
    [k \in 1..Len(alerts) |->
        IF IsSentinel(alerts[k]) THEN [action |-> alerts[k].action] ELSE alerts[k]]

\* the step is a check_vehicle call that repeats the last request, itself a
\* successful check_vehicle call, and succeeds too
RepeatedVehicleCall ==
    /\ VehicleOk
    /\ ncalls' = ncalls + 1
    /\ req' = req
    /\ resp'.kind = "check_vehicle" /\ resp'.status = 200

\* C18 as stated: two consecutive identical check_vehicle calls return identical
\* ssm lists and identical alerts lists, and the second call leaves the stored
\* ids and their insertion order unchanged
C18_Idempotent ==
    [][RepeatedVehicleCall =>
          /\ resp'.body.ssm = resp.body.ssm
          /\ resp'.body.alerts = resp.body.alerts
          /\ IdOrder(vehicle_states') = IdOrder(vehicle_states)]_vars

\* C18 as amended: the alerts lists are identical apart from the timestamp of
\* the 'safe' sentinel
C18_IdempotentButSentinelTime ==
    [][RepeatedVehicleCall =>
          /\ resp'.body.ssm = resp.body.ssm
          /\ NoSentinelTime(resp'.body.alerts) = NoSentinelTime(resp.body.alerts)
          /\ IdOrder(vehicle_states') = IdOrder(vehicle_states)]_vars

\* a request was repeated at once, both calls scanned another vehicle and
\* both raised a pair alert
C18_Witness ==
    /\ Len(log) >= 3
    /\ log[Len(log)].req = log[Len(log) - 1].req
    /\ log[Len(log)].resp.status = 200 /\ log[Len(log) - 1].resp.status = 200
    /\ Len(log[Len(log)].resp.body.ssm) >= 1
    /\ IsPairAlert(log[Len(log)].resp.body.alerts[1])
    /\ log[Len(log)].resp = resp
    /\ Len(vehicle_states) = 2

\* type, target id and risk score of the alerts of a response
AlertKeys(alerts) ==
    [k \in 1..Len(alerts) |->
        IF IsPairAlert(alerts[k])
        THEN [type |-> alerts[k].type, to |-> alerts[k].to,
              risk_score |-> alerts[k].risk_score]
        ELSE [action |-> alerts[k].action]]

\* C19: for the same store contents and the same request, check_vehicle of
\* ssm_dash_noexcel_pet.py returns alerts with the same type, target id and
\* risk score as check_vehicle of ssm_dash_noexcel.py
C19_SameTable ==
    [][(/\ variant = "pet"
        /\ ncalls' = ncalls + 1
        /\ resp'.kind = "check_vehicle" /\ resp'.status = 200)
       => AlertKeys(resp'.body.alerts)
            = AlertKeys(check_vehicle_risk("noexcel", vehicle_states, ssm_buf,
                                           alert_buf, req'.data, now).resp.body.alerts)]_vars

\* a response body without its timestamp
NoTimestamp(body) == [f \in (DOMAIN body) \ {"timestamp"} |-> body[f]]

\* the step is a check_vru call that succeeds
VruCallOk ==
    /\ ncalls' = ncalls + 1
    /\ resp'.kind = "check_vru" /\ resp'.status = 200

\* C20: a successful check_vru call appends exactly one record, that of the
\* pair it was given, to vru_buf, leaves the entity store, ssm_buf, alert_buf
\* and rsu_buf unchanged, and answers as every earlier call with the same
\* payload did, whatever the store held then
C20_VruFrame ==
    [][VruCallOk =>
          /\ vehicle_states' = vehicle_states
          /\ ssm_buf' = ssm_buf
          /\ alert_buf' = alert_buf
          /\ rsu_buf' = rsu_buf
          /\ Len(vru_buf') = Min(Len(vru_buf) + 1, BUF_SIZE)
          /\ SubSeq(vru_buf', 1, Len(vru_buf') - 1)
               = SubSeq(vru_buf, Len(vru_buf) + 2 - Len(vru_buf'), Len(vru_buf))
          /\ vru_buf'[Len(vru_buf')].veh_id = req'.data.vehicle.id
          /\ vru_buf'[Len(vru_buf')].ped_id = req'.data.pedestrian.id
          /\ vru_buf'[Len(vru_buf')].ts = now
          /\ \A k \in 1..Len(log) :
                (log[k].req = req' /\ log[k].resp.status = 200)
                   => NoTimestamp(log[k].resp.body) = NoTimestamp(resp'.body)]_vars

\* a check_vru call answered while the store held two vehicles and ssm_buf and
\* rsu_buf held records, the same payload having been answered on an empty store
C20_Witness ==
    /\ VruOk
    /\ Len(log) >= 2
    /\ log[1].req = req /\ log[1].resp.status = 200
    /\ log[Len(log)].resp = resp
    /\ Len(vehicle_states) = 2
    /\ Len(ssm_buf) >= 1
    /\ Len(rsu_buf) >= 1
    /\ Len(vru_buf) = 2

\* the radius the claim gives a sensor: its range_m when that is a number, 200
\* when it is missing or does not parse
ClaimedRadius(rsu) ==
    IF "range_m" \in DOMAIN rsu /\ rsu.range_m \in {"20", "0"}
    THEN (IF rsu.range_m = "20" THEN 20 ELSE 0)
    ELSE 200

\* the detections of the step for one sensor and one entity
DetectionsOf(rsu, kind, e) ==
    SelectSeq(sim.detections,
              LAMBDA d : d.rsu_id = rsu.id /\ d.obj_type = kind /\ d.obj_id = e.id)

\* the squared distance between a sensor and an entity
SquaredGap(rsu, e) == (e.x - rsu.x) * (e.x - rsu.x) + (e.y - rsu.y) * (e.y - rsu.y)

\* the pair is reported once, with its distance, if it is within the claimed
\* radius and not at all otherwise
DetectedIffInRange(rsu, kind, e) ==
    IF SquaredGap(rsu, e) <= ClaimedRadius(rsu) * ClaimedRadius(rsu)
    THEN /\ Len(DetectionsOf(rsu, kind, e)) = 1
         /\ DetectionsOf(rsu, kind, e)[1].distance_m * DetectionsOf(rsu, kind, e)[1].distance_m
              = SquaredGap(rsu, e)
         /\ DetectionsOf(rsu, kind, e)[1].distance_m >= 0
    ELSE Len(DetectionsOf(rsu, kind, e)) = 0

\* C21: in each simulation step the scan emits exactly one detection for a
\* (sensor, entity) pair iff their distance is at most the sensor's radius,
\* boundary included, with distance_m equal to that distance; a sensor whose
\* range is missing or unparsable uses radius 200
C21_RsuDetect ==
    \A i \in 1..Len(sim.rsus) :
        /\ \A j \in 1..Len(sim.vehicles) :
              sim.vehicles[j].known
                 => DetectedIffInRange(sim.rsus[i], "vehicle", sim.vehicles[j])
        /\ \A j \in 1..Len(sim.persons) :
              sim.persons[j].known
                 => DetectedIffInRange(sim.rsus[i], "pedestrian", sim.persons[j])

\* a sensor of radius 20 with a vehicle on its boundary, detected, and a
\* pedestrian 30 m away, not detected
C21_Witness ==
    /\ sim.step >= 1
    /\ sim.rsus[1].range_m = "20"
    /\ sim.vehicles[1].known /\ <<sim.vehicles[1].x, sim.vehicles[1].y>> = <<112, 116>>
    /\ sim.persons[1].known /\ <<sim.persons[1].x, sim.persons[1].y>> = <<130, 100>>
    /\ Len(DetectionsOf(sim.rsus[1], "vehicle", sim.vehicles[1])) = 1
    /\ Len(DetectionsOf(sim.rsus[1], "pedestrian", sim.persons[1])) = 0

\* the risk score of a check_vru row to which the pet adds nothing
RiskWithoutPet(row) ==
    RMin(ONE,
         RAdd(IF RLt(ValOrInf(row.ttc), ONE) THEN <<3, 5>>
              ELSE IF RLt(ValOrInf(row.ttc), <<5, 2>>) THEN <<3, 10>> ELSE ZERO,
              IF RGt(row.req_dec, RInt(5)) THEN <<1, 5>> ELSE ZERO))

\* C22: check_vru reports pet as null exactly when the pedestrian speed is not
\* positive or the closing speed is not positive; otherwise pet is the
\* non-negative value |distance/pedestrian_speed - distance/closing_speed|. A
\* null pet adds nothing to the risk score and triggers neither the
\* emergency_brake nor the slow_down guard.
C22_VruPet ==
    VruOk =>
        LET row == vru_buf[Len(vru_buf)]
            ps == req.data.pedestrian.speed
            na == ps <= 0 \/ RLe(row.closing, ZERO)
            hi == RLt(ValOrInf(row.ttc), ONE) \/ RGt(row.req_dec, RInt(6))
            mid == RLt(ValOrInf(row.ttc), <<5, 2>>) \/ RGt(row.req_dec, RInt(3))
        IN  /\ (resp.body.pet = NONE) <=> na
            /\ (row.pet = NONE) <=> na
            /\ ~na => /\ row.pet = RAbs(RSub(RDiv(row.dist, RInt(ps)),
                                             RDiv(row.dist, row.closing)))
                      /\ RGe(row.pet, ZERO)
                      /\ resp.body.pet = Round3(row.pet)
            /\ na => /\ row.risk = RiskWithoutPet(row)
                     /\ resp.body.recommended_action
                          = (IF hi THEN "emergency_brake"
                             ELSE IF mid THEN "slow_down" ELSE "keep")

\* a response with a positive pet
C22_Witness ==
    /\ VruOk
    /\ resp.body.pet # NONE
    /\ RGt(resp.body.pet, ZERO)
    /\ req.data.pedestrian.speed > 0
    /\ RGt(vru_buf[Len(vru_buf)].closing, ZERO)

\* a response with a null pet although the pedestrian walks
C22_WitnessNull ==
    /\ VruOk
    /\ resp.body.pet = NONE
    /\ req.data.pedestrian.speed > 0

\* a finite number: neither None nor infinite
Finite(x) == x[2] > 0

\* C23: a well-formed check_vehicle or check_vru request with degenerate values
\* (distance 0, zero speed on either or both sides, closing speed 0) is never
\* answered with an error: the ttc is null without a positive distance and a
\* positive closing speed, the time headway is null for an ego at rest, the pet
\* is null without a walking pedestrian and a positive closing speed, and the
\* required deceleration is finite
C23_DegenerateInput ==
    /\ req.kind = "check_vehicle" =>
          /\ VehicleOk
          /\ \A j \in 1..Len(resp.body.ssm) :
                LET rec == resp.body.ssm[j]
                IN  /\ (rec.distance = ZERO \/ RLe(rec.closing_speed, ZERO))
                          => rec.ttc = NONE
                    /\ req.data.speed = 0 => rec.time_headway = NONE
                    /\ Finite(rec.required_deceleration)
                    /\ Finite(rec.distance) /\ Finite(rec.closing_speed)
                    /\ Finite(rec.delta_v)
    /\ req.kind = "check_vru" =>
          /\ VruOk
          /\ (resp.body.distance = ZERO \/ RLe(resp.body.closing_speed, ZERO))
                => resp.body.ttc = NONE /\ resp.body.pet = NONE
          /\ req.data.pedestrian.speed = 0 => resp.body.pet = NONE
          /\ req.data.vehicle.speed = 0 => resp.body.time_headway = NONE
          /\ Finite(resp.body.required_deceleration)
          /\ Finite(resp.body.distance) /\ Finite(resp.body.closing_speed)
          /\ Finite(resp.body.delta_v)

\* an ego at rest at the place of a stored vehicle at rest: every metric of
\* the pair is degenerate
C23_Witness ==
    /\ VehicleOk
    /\ Len(resp.body.ssm) = 1
    /\ req.data.speed = 0
    /\ resp.body.ssm[1].distance = ZERO
    /\ resp.body.ssm[1].delta_v = ZERO
    /\ resp.body.ssm[1].ttc = NONE
    /\ resp.body.ssm[1].time_headway = NONE
    /\ resp.body.ssm[1].required_deceleration = ZERO

\* a vehicle at a walking pedestrian's place
C23_WitnessVru ==
    /\ VruOk
    /\ resp.body.distance = ZERO
    /\ req.data.pedestrian.speed > 0
    /\ RGt(resp.body.required_deceleration, ZERO)

-----------------------------------------------------------------------------
(* C21-C30 *)

\* the step answers a check_vehicle request that parses and whose position
\* has two coordinates
VehicleCallWellFormed ==
    /\ ncalls' = ncalls + 1
    /\ req'.kind = "check_vehicle"
    /\ req'.data.fault = "none"
    /\ Len(req'.data.position) = 2

\* C24: no request removes an id from the entity store; an entity that does not
\* report stays in the store, in its place and with its last reported values,
\* and has exactly one SSM record in the response to every later check_vehicle
\* request of another entity
C24_NoEviction ==
    [][/\ StoreIds(vehicle_states) \subseteq StoreIds(vehicle_states')
       /\ Len(vehicle_states') >= Len(vehicle_states)
       /\ \A i \in 1..Len(vehicle_states) :
             (ncalls' = ncalls + 1 /\ ~(/\ req'.kind = "check_vehicle"
                                        /\ req'.data.id = vehicle_states[i].id))
                => vehicle_states'[i] = vehicle_states[i]
       /\ VehicleCallWellFormed =>
             \A i \in 1..Len(vehicle_states) :
                (/\ vehicle_states[i].id # req'.data.id
                 /\ Len(vehicle_states[i].position) = 2)
                => /\ resp'.status = 200
                   /\ Cardinality({j \in 1..Len(resp'.body.ssm) :
                                     resp'.body.ssm[j].other_id = vehicle_states[i].id}) = 1
      ]_vars

\* the part of C24 that is about the store alone
C24_StoreNeverShrinks ==
    [][/\ StoreIds(vehicle_states) \subseteq StoreIds(vehicle_states')
       /\ Len(vehicle_states') >= Len(vehicle_states)
       /\ \A i \in 1..Len(vehicle_states) :
             (ncalls' = ncalls + 1 /\ ~(/\ req'.kind = "check_vehicle"
                                        /\ req'.data.id = vehicle_states[i].id))
                => vehicle_states'[i] = vehicle_states[i]
       /\ (VehicleCallWellFormed /\ resp'.status = 200) =>
             \A i \in 1..Len(vehicle_states) :
                vehicle_states[i].id # req'.data.id
                => Cardinality({j \in 1..Len(resp'.body.ssm) :
                                  resp'.body.ssm[j].other_id = vehicle_states[i].id}) = 1
      ]_vars

\* C25: check_vehicle emits a collision_imminent alert for a pair only if the
\* pair's ttc is finite and below 1.0 and its required deceleration or its
\* delta-v exceeds 5.0; a ttc below 1.0 alone yields a collision_warning
C25_ImminentNeedsTtc ==
    VehicleOk =>
        \A j \in 1..Len(CallRows) :
            LET row == CallRows[j]
                al == AlertsTo(row.other)
                near == row.ttc # NONE /\ RLt(row.ttc, ONE)
                hard == RGt(row.req_dec, RInt(5))
                fast == RGt(row.delta_v, RInt(5))
            IN  /\ (\E k \in 1..Len(al) : al[k].type = "collision_imminent")
                     => (near /\ (hard \/ fast))
                /\ (near /\ ~hard /\ ~fast)
                     => (Len(al) = 1 /\ al[1].type = "collision_warning")

\* a pair with a ttc below 1.0 and nothing else was answered with a warning,
\* next to a pair that was answered with collision_imminent
C25_Witness ==
    /\ VehicleOk
    /\ \E j \in 1..Len(CallRows) :
         /\ CallRows[j].ttc # NONE /\ RLt(CallRows[j].ttc, ONE)
         /\ ~RGt(CallRows[j].req_dec, RInt(5))
         /\ ~RGt(CallRows[j].delta_v, RInt(5))
         /\ AlertsTo(CallRows[j].other)[1].type = "collision_warning"

\* a pair without a ttc below 1.0 whose other terms are both met: a warning
C25_WitnessNoTtc ==
    /\ VehicleOk
    /\ \E j \in 1..Len(CallRows) :
         /\ ~RLt(ValOrInf(CallRows[j].ttc), ONE)
         /\ RGt(CallRows[j].req_dec, RInt(5))
         /\ RGt(CallRows[j].delta_v, RInt(5))
         /\ AlertsTo(CallRows[j].other)[1].type = "collision_warning"

\* the last BUF_SIZE entries of a sequence
Retained(seq) ==
    IF Len(seq) > BUF_SIZE THEN SubSeq(seq, Len(seq) - BUF_SIZE + 1, Len(seq)) ELSE seq

\* the alerts of a response that are not the 'safe' sentinel
PairAlerts(alerts) == SelectSeq(alerts, LAMBDA a : ~IsSentinel(a))

\* the step answers a check_vehicle request with a result
VehicleCallOk ==
    /\ ncalls' = ncalls + 1
    /\ resp'.kind = "check_vehicle" /\ resp'.status = 200

\* C26: alert_buf holds only collision_imminent and collision_warning records
\* with risk >= 0.4, never the 'safe' sentinel; a successful check_vehicle call
\* appends one ssm_buf record per SSM row of its response and one alert_buf
\* record per alert of its response other than the sentinel, in the order of
\* the response, all with the timestamp of the call
C26_BufferedRecords ==
    [][/\ \A i \in 1..Len(alert_buf') :
             /\ alert_buf'[i].type \in {"collision_imminent", "collision_warning"}
             /\ RGe(alert_buf'[i].risk, <<2, 5>>)
             /\ alert_buf'[i].action \in {"emergency_brake", "slow_down"}
       /\ VehicleCallOk =>
             LET ssm == resp'.body.ssm
                 al == PairAlerts(resp'.body.alerts)
                 rows == LastRows(ssm_buf', Len(ssm))
                 arows == LastRows(alert_buf', Len(al))
             IN  /\ Len(ssm) <= Len(ssm_buf') /\ Len(al) <= Len(alert_buf')
                 /\ ssm_buf' = Retained(ssm_buf \o rows)
                 /\ alert_buf' = Retained(alert_buf \o arows)
                 /\ \A j \in 1..Len(ssm) :
                       /\ rows[j].ego = resp'.body.vehicle_id
                       /\ rows[j].other = ssm[j].other_id
                       /\ rows[j].ts = now
                       /\ Round3(rows[j].dist) = ssm[j].distance
                 /\ \A k \in 1..Len(al) :
                       /\ arows[k].type = al[k].type
                       /\ arows[k].from = al[k].from /\ arows[k].to = al[k].to
                       /\ arows[k].action = al[k].recommended_action
                       /\ Round3(arows[k].risk) = al[k].risk_score
                       /\ arows[k].ts = now
      ]_vars

\* a call that returned two SSM rows and one alert when both buffers already
\* held a record
C26_Witness ==
    /\ VehicleOk
    /\ Len(resp.body.ssm) = 2
    /\ Len(PairAlerts(resp.body.alerts)) >= 1
    /\ Len(ssm_buf) = 3
    /\ Len(alert_buf) >= 2
    /\ alert_buf[Len(alert_buf)].ts = log[Len(log)].ts

\* a call that returned the sentinel and left alert_buf as it was, not empty
C26_WitnessSentinel ==
    /\ VehicleOk
    /\ Len(resp.body.alerts) = 1 /\ IsSentinel(resp.body.alerts[1])
    /\ Len(resp.body.ssm) >= 1
    /\ Len(alert_buf) >= 1

\* the k-th request read by the server is a check_vehicle request that was
\* answered with an error
VehicleError(k) ==
    log[k].req.kind = "check_vehicle" /\ log[k].resp.status # 200

\* the k-th request is a snapshot, or a check_vehicle request that parses, has
\* a position of two coordinates and names another id than the j-th
ServedAfter(j, k) ==
    \/ log[k].req.kind = "snapshot"
    \/ /\ log[k].req.kind = "check_vehicle"
       /\ log[k].req.data.fault = "none"
       /\ Len(log[k].req.data.position) = 2
       /\ log[k].req.data.id # log[j].req.data.id

\* apart from the j-th, every check_vehicle request up to the k-th parses and
\* has a position of two coordinates
OthersWellFormed(j, k) ==
    \A i \in (1..k) \ {j} :
        log[i].req.kind = "check_vehicle"
           => log[i].req.data.fault = "none" /\ Len(log[i].req.data.position) = 2

\* C27: after a check_vehicle request that was answered with an error, every
\* later well-formed check_vehicle request for a different id and every later
\* snapshot succeeds (here with no other ill-formed request before them)
C27_ErrorNotFatal ==
    \A j \in 1..Len(log) : \A k \in (j + 1)..Len(log) :
        (VehicleError(j) /\ ServedAfter(j, k) /\ OthersWellFormed(j, k))
           => log[k].resp.status = 200

\* the same after an error answered to a request that did not parse, which
\* is not stored
C27_AfterParseError ==
    \A j \in 1..Len(log) : \A k \in (j + 1)..Len(log) :
        (/\ VehicleError(j) /\ log[j].req.data.fault # "none"
         /\ ServedAfter(j, k) /\ OthersWellFormed(j, k))
        => log[k].resp.status = 200

\* the records of a buffer are in non-decreasing ts order, oldest first
TimeOrdered(buf) ==
    \A i \in 1..Len(buf) : \A j \in (i + 1)..Len(buf) : TsOf(buf[i]) <= TsOf(buf[j])

\* C28: in every reachable state, also when requests are handled concurrently,
\* the records of each ring buffer are in non-decreasing ts order from oldest
\* to newest
C28_BuffersTimeOrdered ==
    /\ TimeOrdered(ssm_buf)
    /\ TimeOrdered(alert_buf)
    /\ TimeOrdered(vru_buf)
    /\ TimeOrdered(rsu_buf)

\* C29: check_vru recommends keep, with severity low, only when the risk
\* score of the same response is 0: a response with a risk score above 0
\* recommends slow_down or emergency_brake
C29_KeepOnlyAtZeroRisk ==
    VruOk =>
        /\ (resp.body.recommended_action = "keep" \/ resp.body.severity = "low")
              => /\ resp.body.risk_score = ZERO
                 /\ resp.body.recommended_action = "keep"
                 /\ resp.body.severity = "low"
        /\ RGt(resp.body.risk_score, ZERO)
              => resp.body.recommended_action \in {"slow_down", "emergency_brake"}

\* a response that recommends keep for a moving vehicle with a required
\* deceleration above 2.0
C29_Witness ==
    /\ VruOk
    /\ resp.body.recommended_action = "keep"
    /\ resp.body.risk_score = ZERO
    /\ RGt(resp.body.required_deceleration, RInt(2))

\* a response with a risk score of 0.3 that recommends slow_down
C29_WitnessRisk ==
    /\ VruOk
    /\ resp.body.risk_score = <<3, 10>>
    /\ resp.body.recommended_action = "slow_down"

\* the monitor threads that have been started and have not ended
AliveLoops == {i \in 1..Len(monitor.loops) : monitor.loops[i] # "exited"}

\* C30: at most one monitor loop thread is alive at any time, under any
\* interleaving of /start and /stop requests: no /start starts a second
\* thread while a monitor started earlier has not ended
C30_SingleMonitor == Cardinality(AliveLoops) <= 1

====
